---- MODULE Spec2Model ----
(***************************************************************************)
(* A model of edr_explorer's DataHandler (src/edr_explorer/data.py): the   *)
(* cache-key encoding, the enumeration of query combinations, the indexer, *)
(* the per-key data cache and the assembly of the aggregate arrays; and of *)
(* ISO8601Expander (src/edr_explorer/util.py): the classification of an    *)
(* interval expression's elements and its expansion to date-times; and of  *)
(* EDRInterface (src/edr_explorer/interface.py): the queries that replace  *)
(* its data handler.                                                       *)
(*                                                                         *)
(* Python values are tagged records [t |-> <type>, v |-> <payload>]:       *)
(*   "int"  an int, "str" a str (a sequence of one-character strings),     *)
(*   "none" None, "ok" a returned value, "raise" a raised exception.       *)
(* A dict is the sequence of its <<key, value>> pairs in insertion order.  *)
(***************************************************************************)
EXTENDS Integers, Sequences, FiniteSets, TLC

VARIABLES
    data_json,        \* the server's response the handler was built from
    cache,            \* DataHandler.cache: a dict {key: array or None}
    errors,           \* DataHandler._errors
    _selection_axes,  \* DataHandler._selection_axes (None until first use)
    _all_query_keys,  \* DataHandler._all_query_keys (None, or a product iterator)
    _all_data,        \* DataHandler._all_data (None until built)
    colours,          \* DataHandler.colours: a dict {parameter: colours or None}
    args,             \* the arguments drawn for the calls of the pure methods
    keyLog,           \* the calls later calls are compared with, oldest first:
                      \* of make_key, or the passes over all_query_keys
    ret,              \* the last call: its operation, arguments, outcome and
                      \* the requests it sent to the server
    expander,         \* an ISO8601Expander (src/edr_explorer/util.py), or None
    interface         \* an EDRInterface (src/edr_explorer/interface.py), or None

vars == <<data_json, cache, errors, _selection_axes, _all_query_keys,
          _all_data, colours, args, keyLog, ret, expander,
          interface>>

handlerVars == <<data_json, cache, errors, _selection_axes, _all_query_keys,
                 _all_data, colours>>

(***************************************************************************)
(* Python values.                                                          *)
(***************************************************************************)
None == [t |-> "none", v |-> 0]
Int_(n) == [t |-> "int", v |-> n]
Str_(s) == [t |-> "str", v |-> s]
Ok(x) == [t |-> "ok", v |-> x]
Raise(e) == [t |-> "raise", v |-> e]

\* The characters the model's strings use, in code-point order.
CharOrder ==
    << ",", "-", "0", "1", "2", "3", "4", "5", "6", "7", "8", "9", "=",
       "a", "b", "c", "d", "e", "f", "g", "h", "i", "j", "k", "l", "m",
       "n", "o", "p", "q", "r", "s", "t", "u", "v", "w", "x", "y", "z" >>

Ord(c) == CHOOSE i \in 1..Len(CharOrder) : CharOrder[i] = c

\* Python's str "<": lexicographic by code point, a proper prefix first.
RECURSIVE StrLess(_, _)
StrLess(a, b) ==
    IF b = <<>> THEN FALSE
    ELSE IF a = <<>> THEN TRUE
    ELSE IF Head(a) = Head(b) THEN StrLess(Tail(a), Tail(b))
    ELSE Ord(Head(a)) < Ord(Head(b))

Digits == <<"0", "1", "2", "3", "4", "5", "6", "7", "8", "9">>

\* str(n) of an int.
RECURSIVE IntToStr(_)
IntToStr(n) ==
    IF n < 0 THEN <<"-">> \o IntToStr(0 - n)
    ELSE IF n < 10 THEN <<Digits[n + 1]>>
    ELSE IntToStr(n \div 10) \o <<Digits[(n % 10) + 1]>>

\* The text an f-string puts for a value: str(value).
Format(val) == IF val.t = "int" THEN IntToStr(val.v) ELSE val.v

\* int(s) of a str: the number, or ValueError.
IsDigit(c) == \E i \in 1..10 : Digits[i] = c
DigitVal(c) == (CHOOSE i \in 1..10 : Digits[i] = c) - 1
RECURSIVE DigitsToNat(_, _)
DigitsToNat(s, acc) ==
    IF s = <<>> THEN acc ELSE DigitsToNat(Tail(s), 10 * acc + DigitVal(Head(s)))
StrToInt(s) ==
    LET neg == s # <<>> /\ Head(s) = "-"
        body == IF neg THEN Tail(s) ELSE s
    IN IF body = <<>> \/ \E i \in 1..Len(body) : ~IsDigit(body[i])
       THEN Raise("ValueError")
       ELSE Ok(IF neg THEN 0 - DigitsToNat(body, 0) ELSE DigitsToNat(body, 0))

\* sep.join(parts)
RECURSIVE Join(_, _)
Join(sep, parts) ==
    IF parts = <<>> THEN <<>>
    ELSE IF Len(parts) = 1 THEN parts[1]
    ELSE parts[1] \o sep \o Join(sep, Tail(parts))

\* s.split(c) for a one-character separator: at least one piece.
RECURSIVE SplitFrom(_, _, _)
SplitFrom(s, c, cur) ==
    IF s = <<>> THEN <<cur>>
    ELSE IF Head(s) = c THEN <<cur>> \o SplitFrom(Tail(s), c, <<>>)
    ELSE SplitFrom(Tail(s), c, Append(cur, Head(s)))
Split(s, c) == SplitFrom(s, c, <<>>)

(***************************************************************************)
(* Python dicts, as sequences of <<key, value>> in insertion order.        *)
(***************************************************************************)
DictKeys(d) == [i \in 1..Len(d) |-> d[i][1]]
KeySet(d) == {d[i][1] : i \in 1..Len(d)}
DictGet(d, k) == d[CHOOSE i \in 1..Len(d) : d[i][1] = k][2]
\* d[k] = v: a present key keeps its place, a new one goes last.
DictSet(d, k, v) ==
    IF k \in KeySet(d)
    THEN [i \in 1..Len(d) |-> IF d[i][1] = k THEN <<k, v>> ELSE d[i]]
    ELSE Append(d, <<k, v>>)
\* The mapping a dict holds: Python's == on dicts compares this.
AsMap(d) == [k \in KeySet(d) |-> DictGet(d, k)]

\* sorted(keys) of strings: insertion sort.
RECURSIVE InsertSorted(_, _)
InsertSorted(k, s) ==
    IF s = <<>> THEN <<k>>
    ELSE IF StrLess(k, Head(s)) THEN <<k>> \o s
    ELSE <<Head(s)>> \o InsertSorted(k, Tail(s))
RECURSIVE SortedUpTo(_, _)
SortedUpTo(s, n) ==
    IF n = 0 THEN <<>> ELSE InsertSorted(s[n], SortedUpTo(s, n - 1))
Sorted(s) == SortedUpTo(s, Len(s))

(***************************************************************************)
(* DataHandler.make_key and DataHandler.from_key.                          *)
(***************************************************************************)
NameEq == <<"n", "a", "m", "e", "=">>

\* The mutant of KeyAxisOrder: the axes in insertion order.
KeyAxisOrderUnsorted(coords_dict) == DictKeys(coords_dict)

\* The order make_key lists the axes in: sorted(coords_dict).
KeyAxisOrder(coords_dict) == Sorted(DictKeys(coords_dict))

make_key(param, coords_dict) ==
    LET order == KeyAxisOrder(coords_dict)
        coord_str == Join(<<",">>,
            [i \in 1..Len(order) |->
                order[i] \o <<"=">> \o Format(DictGet(coords_dict, order[i]))])
    IN NameEq \o param \o <<",">> \o coord_str

\* The dict comprehension of from_key over the pieces after the first.
RECURSIVE CoordsFromPieces(_, _)
CoordsFromPieces(pieces, acc) ==
    IF pieces = <<>> THEN Ok(acc)
    ELSE LET kv == Split(Head(pieces), "=")
         IN IF Len(kv) < 2 THEN Raise("IndexError")
            ELSE CoordsFromPieces(Tail(pieces), DictSet(acc, kv[1], Str_(kv[2])))

from_key(key) ==
    LET pieces == Split(key, ",")
        param == Split(pieces[1], "=")
    IN IF Len(param) < 2 THEN Raise("IndexError")
       ELSE LET coords_dict == CoordsFromPieces(Tail(pieces), <<>>)
            IN IF coords_dict.t = "raise" THEN coords_dict
               ELSE Ok(<<param[2], coords_dict.v>>)

(***************************************************************************)
(* The response data_json and what the handler derives from it.            *)
(*   data_json.parameters  the parameter names, in the response's order    *)
(*   data_json.axes        the dict data_json["domain"]["axes"]: axis name *)
(*                         to the dict describing the axis                 *)
(*   data_json.ranges      parameter name to its "type", its "axisNames",  *)
(*                         the axes its tile "urlTemplate" names, its      *)
(*                         "shape" and whether its "values" are inline     *)
(***************************************************************************)
AxX == <<"x">>
AxY == <<"y">>
AxZ == <<"z">>
AxT == <<"t">>
AxE == <<"e">>
Latitude == <<"l", "a", "t", "i", "t", "u", "d", "e">>
Longitude == <<"l", "o", "n", "g", "i", "t", "u", "d", "e">>

horizontal_axes_names == <<AxX, AxY, Latitude, Longitude>>
AXES_ORDER == <<AxE, AxT, AxZ, AxY, AxX>>

SeqToSet(s) == {s[i] : i \in 1..Len(s)}

\* list.index(val): the 0-based place of the first equal element.
ListIndex(list, val) ==
    IF \E i \in 1..Len(list) : list[i] = val
    THEN Ok((CHOOSE i \in 1..Len(list) :
                 list[i] = val /\ \A j \in 1..(i - 1) : list[j] # val) - 1)
    ELSE Raise("ValueError")

\* A float, as the fraction num/den in lowest terms.
RECURSIVE Gcd(_, _)
Gcd(a, b) == IF b = 0 THEN a ELSE Gcd(b, a % b)
Abs(a) == IF a < 0 THEN 0 - a ELSE a
Float_(num, den) ==
    LET g == Gcd(Abs(num), den)
    IN [t |-> "float", v |-> <<num \div g, den \div g>>]

\* np.linspace(d["start"], d["stop"], d["num"]): an ndarray of floats.
_build_coord_points_open(d) ==
    [t |-> "ndarray",
     v |-> [i \in 1..DictGet(d, "num") |->
               Float_(DictGet(d, "start") * DictGet(d, "num")
                          + (i - 1) * (DictGet(d, "stop") - DictGet(d, "start")),
                      DictGet(d, "num"))]]
_build_coord_points(d) ==
    LET start == DictGet(d, "start")
        stop == DictGet(d, "stop")
        num == DictGet(d, "num")
    IN [t |-> "ndarray",
        v |-> [i \in 1..num |->
                  IF num = 1 THEN Float_(start, 1)
                  ELSE Float_(start * (num - 1) + (i - 1) * (stop - start),
                              num - 1)]]

List_(s) == [t |-> "list", v |-> s]
Dict_(d) == [t |-> "dict", v |-> d]

\* The KeyError of _build_coords: its message holds the keys of the
\* description, joined.
BadKeys(coord_data) ==
    Raise([error |-> "KeyError", bad_keys |-> DictKeys(coord_data)])

\* The coordinate points of one axis description, or KeyError.
CoordPointsOrNone(coord_data) ==
    IF "start" \in KeySet(coord_data) THEN Ok(_build_coord_points(coord_data))
    ELSE IF "values" \in KeySet(coord_data)
         THEN Ok(List_(DictGet(coord_data, "values")))
    ELSE Ok(List_(<<>>))
CoordPoints(coord_data) ==
    IF "start" \in KeySet(coord_data) THEN Ok(_build_coord_points(coord_data))
    ELSE IF "values" \in KeySet(coord_data)
         THEN Ok(List_(DictGet(coord_data, "values")))
    ELSE BadKeys(coord_data)

\* _build_coords: the dict {axis name: points}, or the KeyError of the
\* first axis whose description has neither "start" nor "values".
RECURSIVE BuildCoordsFrom(_, _)
BuildCoordsFrom(axes, coords) ==
    IF axes = <<>> THEN Ok(coords)
    ELSE LET pts == CoordPoints(Head(axes)[2])
         IN IF pts.t = "raise" THEN pts
            ELSE BuildCoordsFrom(Tail(axes),
                                 DictSet(coords, Head(axes)[1], pts.v))
_build_coords(dj) == BuildCoordsFrom(dj.axes, <<>>)

\* The property coords of a handler whose axes can all be built: what
\* _build_coords made of the response on first use, kept in self._coords
\* (the model keeps it beside the response, in dj._coords).
Coords(dj) == dj._coords.v
Points(dj, axis) == DictGet(Coords(dj), axis).v

\* The property param_names.
param_names(dj) == dj.parameters

\* set(axes_names) - set(self.horizontal_axes_names)
SelectionAxisSet(dj) == KeySet(Coords(dj)) \ SeqToSet(horizontal_axes_names)

\* list(<a set>): the set's elements in an order the language leaves open.
ListsOfSet(S) ==
    {f \in [1..Cardinality(S) -> S] :
        \A i, j \in 1..Cardinality(S) : i # j => f[i] # f[j]}

\* itertools.product of the per-axis lists of {axis: point} dicts, each
\* tuple merged into one dict: the last axis varies fastest.
RECURSIVE AllCoordDicts(_, _)
AllCoordDicts(dj, axes) ==
    IF axes = <<>> THEN << <<>> >>
    ELSE LET pts == Points(dj, Head(axes))
             rest == AllCoordDicts(dj, Tail(axes))
             n == Len(rest)
         IN [k \in 1..(Len(pts) * n) |->
                <<<<Head(axes), pts[((k - 1) \div n) + 1]>>>>
                    \o rest[((k - 1) % n) + 1]]

\* The mutant of ProductWithParams: each parameter paired with one dict only
\* (zip instead of product).
ZipWithParams(params, dicts) ==
    [k \in 1..(IF Len(params) < Len(dicts) THEN Len(params) ELSE Len(dicts)) |->
        <<params[k], dicts[k]>>]

\* iproduct(self.param_names, all_coord_dicts): parameter-major.
ProductWithParams(params, dicts) ==
    [k \in 1..(Len(params) * Len(dicts)) |->
        <<params[((k - 1) \div Len(dicts)) + 1],
          dicts[((k - 1) % Len(dicts)) + 1]>>]

\* get_combinations, given the list selection_axes holds: everything the
\* returned iterator yields, in order.
get_combinations(dj, selection_axes) ==
    ProductWithParams(param_names(dj), AllCoordDicts(dj, selection_axes))

(***************************************************************************)
(* DataHandler._build_indexer.                                             *)
(***************************************************************************)
SliceAll == [t |-> "slice", v |-> <<>>]
\* The mutant of Slice: an empty slice (i, i).
SliceEmpty(i) == [t |-> "slice", v |-> <<i, i>>]
\* slice(i, i + 1)
Slice(i) == [t |-> "slice", v |-> <<i, i + 1>>]

\* self.coords[axis].index(val): a list finds it or raises ValueError, an
\* ndarray has no method index, an unknown axis is a KeyError.
CoordIndexOrFirst(dj, axis, val) ==
    IF axis \notin KeySet(Coords(dj)) THEN Raise("KeyError")
    ELSE IF DictGet(Coords(dj), axis).t = "ndarray" THEN Raise("AttributeError")
    ELSE IF ListIndex(Points(dj, axis), val).t = "raise" THEN Ok(0)
    ELSE ListIndex(Points(dj, axis), val)
CoordIndex(dj, axis, val) ==
    IF axis \notin KeySet(Coords(dj)) THEN Raise("KeyError")
    ELSE IF DictGet(Coords(dj), axis).t = "ndarray" THEN Raise("AttributeError")
    ELSE ListIndex(Points(dj, axis), val)

RECURSIVE IndexerFrom(_, _, _, _)
IndexerFrom(dj, axis_names, pairs, indices) ==
    IF pairs = <<>> THEN Ok(indices)
    ELSE LET axis == Head(pairs)[1]
             data_idx == CoordIndex(dj, axis, Head(pairs)[2])
             axis_idx == ListIndex(axis_names, axis)
         IN IF data_idx.t = "raise" THEN data_idx
            ELSE IF axis_idx.t = "raise" THEN axis_idx
            ELSE IndexerFrom(dj, axis_names, Tail(pairs),
                     [indices EXCEPT ![axis_idx.v + 1] = Slice(data_idx.v)])

_build_indexer(dj, param_name, coords_dict) ==
    LET axis_names == dj.ranges[param_name].axisNames
    IN IndexerFrom(dj, axis_names, coords_dict,
                   [k \in 1..Len(axis_names) |-> SliceAll])

(***************************************************************************)
(* get_request, DataHandler._request_data, get_item and __getitem__.       *)
(***************************************************************************)
\* What one GET can come to:
\*   "ok"         a JSON response without "code", holding the tile
\*   "exception"  requests.get raised: no response, errors is the class name
\*   "code"       a JSON error response: "code" and a message, no tile
\*   "code_data"  a JSON response holding "code" and a tile
\*   "badjson"    a body r.json() cannot decode: get_request itself raises
\*                (its try covers requests.get alone)
Outcomes == {"ok", "exception", "code", "code_data", "badjson"}

Msg(m) == [t |-> "msg", v |-> m]
Array(src) == [t |-> "array", v |-> src]
Dataset(array) == [t |-> "dataset", v |-> array]

\* get_request(url): (response, status_code, errors), or the exception
\* r.json() raises.
get_request(url, outcome) ==
    CASE outcome = "ok" ->
            Ok([response |-> Ok(url), status_code |-> Int_(200), errors |-> None])
      [] outcome = "exception" ->
            Ok([response |-> None, status_code |-> None,
                errors |-> Msg("ConnectionError")])
      [] outcome = "code" ->
            Ok([response |-> Msg("error"), status_code |-> Int_(404),
                errors |-> Msg("not found")])
      [] outcome = "code_data" ->
            Ok([response |-> Ok(url), status_code |-> Int_(404),
                errors |-> Msg("not found")])
      [] OTHER -> Raise("JSONDecodeError")

\* target_v_type(v): v cast to the type of the axis's first point.
Cast(type, v) ==
    CASE type = "int" ->
            IF v.t = "int" THEN Ok(v)
            ELSE LET n == StrToInt(v.v)
                 IN IF n.t = "raise" THEN n ELSE Ok(Int_(n.v))
      [] type = "str" -> Ok(Str_(Format(v)))
      [] OTHER ->
            IF v.t = "int" THEN Ok(Float_(v.v, 1))
            ELSE LET n == StrToInt(v.v)
                 IN IF n.t = "raise" THEN n ELSE Ok(Float_(n.v, 1))

\* The loop of _request_data that fills template_dict with each axis's index.
RECURSIVE TemplateDictFrom(_, _, _)
TemplateDictFrom(dj, pairs, template_dict) ==
    IF pairs = <<>> THEN Ok(template_dict)
    ELSE LET k == Head(pairs)[1]
             v == Head(pairs)[2]
         IN IF k \notin KeySet(Coords(dj)) THEN Raise("KeyError")
            ELSE IF Len(Points(dj, k)) = 0 THEN Raise("IndexError")
            ELSE LET cast == Cast(Points(dj, k)[1].t, v)
                     idx == IF cast.t = "raise" THEN cast
                            ELSE CoordIndex(dj, k, cast.v)
                 IN IF idx.t = "raise" THEN idx
                    ELSE TemplateDictFrom(dj, Tail(pairs),
                                          DictSet(template_dict, k, idx.v))

\* url_template.format(**template_dict): the parameter's tile URL with the
\* index of every axis the template names, or KeyError for one not given.
FormatUrl(dj, param, template_dict) ==
    LET names == dj.ranges[param].template
    IN IF \E i \in 1..Len(names) : names[i] \notin KeySet(template_dict)
       THEN Raise("KeyError")
       ELSE Ok(<<param, [i \in 1..Len(names) |->
                            <<names[i], DictGet(template_dict, names[i])>>]>>)

\* The mutant of TileArray: the tile of a response that reports an error
\* is returned all the same.
TileArrayDespiteErrors(url, errs) == Array(<<"tile", url>>)

\* The array _request_data makes of a response holding a tile: the tile's
\* values, unless the response reports an error.
TileArray(url, errs) == IF errs = None THEN Array(<<"tile", url>>) ELSE None

\* _request_data once get_request has answered the request for url with
\* got: what it returns or raises, what it leaves in self.errors, and the
\* requests it sent with the answer each got.
Answered(dj, param, url, got, outcome) ==
    LET param_type == dj.ranges[param].type
        sent == <<[url |-> url.v, answer |-> outcome]>>
        emsg == IF got.v.status_code # None
                THEN Msg(<<got.v.errors.v, got.v.status_code.v>>)
                ELSE got.v.errors
    IN IF url.t = "raise"
       THEN [out |-> url, errors |-> None, fetched |-> <<>>]
       ELSE IF got.t = "raise"
       THEN [out |-> got, errors |-> None, fetched |-> sent]
       ELSE IF got.v.response # None /\ param_type # "TiledNdArray"
       THEN [out |-> Raise("NotImplementedError"), errors |-> None,
             fetched |-> sent]
       ELSE IF got.v.response # None /\ got.v.response.t # "ok"
       THEN \* r["shape"] of a response that holds no tile
            [out |-> Raise("KeyError"), errors |-> None, fetched |-> sent]
       ELSE [out |-> Ok(IF got.v.response = None THEN None
                        ELSE TileArray(got.v.response.v, got.v.errors)),
             errors |-> IF got.v.errors # None THEN emsg ELSE None,
             fetched |-> sent]

\* The URL _request_data requests, or what building it raises.
RequestUrl(dj, param, template_dict) ==
    IF template_dict.t = "raise" THEN template_dict
    ELSE FormatUrl(dj, param, template_dict.v)

\* _request_data: template_dict, then url, then the answer to the request.
_request_data(dj, param, coords_dict, outcome) ==
    IF param \notin DOMAIN dj.ranges
    THEN [out |-> Raise("KeyError"), errors |-> None, fetched |-> <<>>]
    ELSE CHOOSE r \in
            UNION { UNION { { Answered(dj, param, url, got, outcome) :
                                got \in {get_request(url.v, outcome)} } :
                            url \in {RequestUrl(dj, param, template_dict)} } :
                    template_dict \in {TemplateDictFrom(dj, coords_dict, <<>>)} } :
            TRUE

\* get_colours: the colours of a parameter, memoised in self.colours.  No
\* response of the model holds a "categoryEncoding": the colours are None.
get_colours(cols, param_name) ==
    [out |-> None, colours |-> DictSet(cols, param_name, None)]

\* _build_geoviews once the colours are known.  The datasets are built by
\* holoviews and geoviews: of an array they make a dataset; what they do
\* with None in place of an array is theirs to say (lib: "raise" or "wrap").
_build_geoviews(dj, array, lib) ==
    IF array = None /\ lib = "raise" THEN Raise("TypeError")
    ELSE IF AxX \notin KeySet(Coords(dj)) \/ AxY \notin KeySet(Coords(dj))
    THEN Raise("KeyError")
    ELSE Ok(Dataset(array))
LibChoices == {"raise", "wrap"}

\* data_dict["shape"] without its length-1 dimensions.
InlineShape(dj, param) ==
    SelectSeq(dj.ranges[param].shape, LAMBDA n : n # 1)

\* a[indices].squeeze() of the inline array of a parameter.
InlineItem(dj, param, indices) ==
    IF Len(indices) > Len(InlineShape(dj, param)) THEN Raise("IndexError")
    ELSE Ok(Array(<<"inline", param, indices>>))

\* dict.get(key): the value, or None for a key the dict does not hold.
DictGetOrNone(d, k) == IF k \in KeySet(d) THEN DictGet(d, k) ELSE None

\* The mutant of CacheLookup: the cache is never found to hold the key.
CacheLookupMiss(cach, key) == None

\* self.cache.get(key)
CacheLookup(cach, key) == DictGetOrNone(cach, key)

\* self.cache[key] = result
CacheStore(cach, key, result) == DictSet(cach, key, result)

\* get_item once the array is found: the dataset built of it, if asked.
ItemFound(dj, got, param, dataset, lib) ==
    IF got.out.t = "raise" \/ ~dataset THEN got
    ELSE [got EXCEPT !.out = _build_geoviews(dj, got.out.v, lib),
                     !.colours = get_colours(@, param).colours]

\* The branch of get_item that asks the server.
ItemRequested(st, key, req) ==
    [st EXCEPT !.out = req.out, !.fetched = req.fetched,
               !.errors = req.errors,
               !.cache = IF req.out.t = "raise" THEN @
                         ELSE CacheStore(@, key, req.out.v)]

\* The inline branch of get_item.
ItemInline(dj, st, param, indices) ==
    [st EXCEPT !.out = IF indices.t = "raise" THEN indices
                       ELSE InlineItem(dj, param, indices.v),
               !.fetched = <<>>]

\* get_item on a handler in state st = [cache, errors, colours]: the state
\* it leaves, what it returns or raises, and the requests it sent.
get_item(dj, st, param, coords_dict, dataset, outcome, lib) ==
    CHOOSE r \in
        { ItemFound(dj, got, param, dataset, lib) :
            got \in UNION {
                IF param \in DOMAIN dj.ranges /\ dj.ranges[param].inline
                THEN {ItemInline(dj, st, param,
                                 _build_indexer(dj, param, coords_dict))}
                ELSE IF CacheLookup(st.cache, key) # None
                THEN {[st EXCEPT !.out = Ok(CacheLookup(st.cache, key)),
                                 !.fetched = <<>>]}
                ELSE { ItemRequested(st, key, req) :
                         req \in {_request_data(dj, param, coords_dict,
                                                outcome)} } :
                key \in {make_key(param, coords_dict)} } } : TRUE

\* __getitem__ once get_item has returned or raised.
LookedUp(got) ==
    IF got.out.t = "raise"
    THEN [got EXCEPT !.errors = Msg(got.out.v), !.out = Ok(None)]
    ELSE IF got.errors # None THEN [got EXCEPT !.out = Ok(None)]
    ELSE got

\* __getitem__ on a handler in state st.
getitem(dj, st, key, outcome, lib) ==
    IF key.t # "str" THEN [st EXCEPT !.out = Raise("KeyError")]
    ELSE CHOOSE r \in UNION {
            IF parsed.t = "raise" THEN {[st EXCEPT !.out = parsed]}
            ELSE { LookedUp(got) :
                     got \in {get_item(dj, st, parsed.v[1], parsed.v[2], TRUE,
                                       outcome, lib)} } :
            parsed \in {from_key(key.v)} } : TRUE

(***************************************************************************)
(* The responses the model draws its handlers from.                        *)
(***************************************************************************)
MaxPoints == 2      \* the most points a selection axis has

P == <<"p">>
Q == <<"q">>
ParamLists == {<<P>>, <<P, Q>>}

ValuesDesc(points) == << <<"values", points>> >>
StartDesc(start, stop, num) ==
    << <<"start", start>>, <<"stop", stop>>, <<"num", num>> >>

\* The i-th point of a time axis ("a", "b", ...) and of a vertical axis
\* (5, 10, ...).
TPoint(i) == Str_(<<CharOrder[13 + i]>>)
ZPoint(i) == Int_(5 * i)
TArrays == {[i \in 1..n |-> TPoint(i)] : n \in 1..MaxPoints}
\* The last one repeats a point.
ZArrays == {[i \in 1..n |-> ZPoint(i)] : n \in 1..MaxPoints}
               \cup {[i \in 1..MaxPoints |-> ZPoint(1)]}

\* The two horizontal axes, x-like first, under either naming.
HorizontalAxes ==
    { << <<AxX, StartDesc(0, 10, 2)>>, <<AxY, ValuesDesc(<<Int_(50)>>)>> >>,
      << <<Longitude, StartDesc(0, 10, 2)>>,
         <<Latitude, ValuesDesc(<<Int_(50)>>)>> >> }

SelectionAxes ==
    {<<>>} \cup {<< <<AxT, ValuesDesc(a)>> >> : a \in TArrays}
           \cup {<< <<AxT, ValuesDesc(a)>>, <<AxZ, ValuesDesc(b)>> >> :
                    a \in TArrays, b \in ZArrays}

\* The orders a server declares a parameter's axes in: the selection axes
\* then y, x; or x, y then the selection axes.
AxisNameOrders(hor, sel) ==
    { DictKeys(sel) \o <<hor[2][1], hor[1][1]>>,
      <<hor[1][1], hor[2][1]>> \o DictKeys(sel) }

MkDomain(params, hor, sel, order, type, inline) ==
    [ parameters |-> params,
      axes |-> hor \o sel,
      _coords |-> _build_coords([axes |-> hor \o sel]),
      ranges |-> [p \in SeqToSet(params) |->
                     [type |-> type, axisNames |-> order,
                      template |-> DictKeys(sel),
                      shape |-> [k \in 1..Len(order) |->
                                    Len(CoordPoints(DictGet(hor \o sel, order[k])).v.v)],
                      inline |-> p \in inline]] ]

Domains ==
    UNION { { MkDomain(params, hor, sel, order, "TiledNdArray", {}) :
                params \in ParamLists, order \in AxisNameOrders(hor, sel) } :
            hor \in HorizontalAxes, sel \in SelectionAxes }

(***************************************************************************)
(* The key functions applied to bounded inputs.                            *)
(***************************************************************************)
MaxKeyAxes == 2     \* the most axes one encoded mapping holds
MaxKeyLog == 2      \* how many make_key calls keyLog remembers

KeyParams == {<<"p">>, <<"q", "2">>}
KeyAxes == {<<"t">>, <<"z">>, <<"e">>, <<"t", "2">>}
KeyValues == {Int_(10), Int_(-3), Str_(<<"a">>)}

\* Every mapping of at most MaxKeyAxes axes to values.
KeyMappings ==
    UNION {[S -> KeyValues] :
              S \in {T \in SUBSET KeyAxes : Cardinality(T) <= MaxKeyAxes}}

\* Every insertion order of a mapping: the dicts that hold its pairs.
DictsOf(m) ==
    LET n == Cardinality(DOMAIN m)
    IN {[i \in 1..n |-> <<o[i], m[o[i]]>>] :
           o \in {f \in [1..n -> DOMAIN m] :
                     \A i, j \in 1..n : i # j => f[i] # f[j]}}

NoCall == [op |-> "none", arg |-> <<>>, out |-> None, fetched |-> <<>>]

\* A handler that is not used: the key functions read none of its state.
IdleHandler ==
    /\ data_json = None
    /\ cache = <<>>
    /\ errors = None
    /\ _selection_axes = None
    /\ _all_query_keys = None
    /\ _all_data = None
    /\ colours = <<>>

KeyInit ==
    /\ IdleHandler
    /\ args \in [param : KeyParams, coords : KeyMappings]
    /\ keyLog = <<>>
    /\ ret = NoCall
    /\ expander = None
    /\ interface = None

\* handler.make_key(param, d) for a dict d holding args's pairs.
MakeKeyCall ==
    \E d \in DictsOf(args.coords) :
        LET call == [param |-> args.param, coords_dict |-> d,
                     key |-> make_key(args.param, d)]
        IN /\ keyLog' = IF Len(keyLog) < MaxKeyLog THEN Append(keyLog, call)
                        ELSE Append(Tail(keyLog), call)
           /\ ret' = [op |-> "make_key", arg |-> <<args.param, d>>,
                      out |-> Ok(call.key), fetched |-> <<>>]
           /\ UNCHANGED <<handlerVars, args, expander, interface>>

\* handler.from_key(key) of a key make_key returned.
FromKeyCall ==
    \E i \in 1..Len(keyLog) :
        /\ ret' = [op |-> "from_key", arg |-> keyLog[i],
                   out |-> from_key(keyLog[i].key), fetched |-> <<>>]
        /\ UNCHANGED <<handlerVars, args, keyLog, expander, interface>>

KeyNext == MakeKeyCall \/ FromKeyCall

SpecKey == KeyInit /\ [][KeyNext]_vars

(***************************************************************************)
(* C6: decoding a key reproduces what was encoded: for every parameter     *)
(* name and every mapping, from_key(make_key(param, d)) returns            *)
(* (param, {k: str(v)}).  Stated as the claim; the code raises IndexError  *)
(* on the key of the empty mapping.                                        *)
(***************************************************************************)
C6_RoundTrip ==
    ret.op = "from_key" =>
        /\ ret.out.t = "ok"
        /\ ret.out.v[1] = ret.arg.param
        /\ AsMap(ret.out.v[2]) =
              [k \in KeySet(ret.arg.coords_dict) |->
                  Str_(Format(DictGet(ret.arg.coords_dict, k)))]

(***************************************************************************)
(* C7: make_key lists the axes in ascending order of axis name whatever    *)
(* the insertion order, so two dicts holding the same pairs give the same  *)
(* key.                                                                    *)
(***************************************************************************)
\* The axis names a key lists, in the order it lists them.
KeyAxesListed(key) ==
    LET pieces == Tail(Split(key, ","))
    IN [i \in 1..Len(pieces) |-> Split(pieces[i], "=")[1]]

C7_KeySorted ==
    /\ \A i \in 1..Len(keyLog) :
          Len(keyLog[i].coords_dict) > 0 =>
              LET listed == KeyAxesListed(keyLog[i].key)
              IN /\ Len(listed) = Len(keyLog[i].coords_dict)
                 /\ \A a, b \in 1..Len(listed) :
                       a < b => StrLess(listed[a], listed[b])
    /\ \A i, j \in 1..Len(keyLog) :
          (/\ keyLog[i].param = keyLog[j].param
           /\ AsMap(keyLog[i].coords_dict) = AsMap(keyLog[j].coords_dict))
              => keyLog[i].key = keyLog[j].key

\* Two calls whose dicts hold the same pairs in different insertion orders,
\* the first of them not in ascending order.
C7_Witness ==
    /\ Len(keyLog) = 2
    /\ keyLog[1].coords_dict # keyLog[2].coords_dict
    /\ AsMap(keyLog[1].coords_dict) = AsMap(keyLog[2].coords_dict)
    /\ StrLess(keyLog[1].coords_dict[2][1], keyLog[1].coords_dict[1][1])

(***************************************************************************)
(* get_combinations and _build_indexer applied to the bounded responses.   *)
(***************************************************************************)
\* The handler right after DataHandler(data_json).
NewHandler(dj) ==
    /\ data_json = dj
    /\ cache = <<>>
    /\ errors = None
    /\ _selection_axes = None
    /\ _all_query_keys = None
    /\ _all_data = None
    /\ colours = <<>>

\* The lists the property selection_axes may return: the one it stored, or
\* on first use any order of the set difference.
SelectionAxesLists ==
    IF _selection_axes = None
    THEN ListsOfSet(SelectionAxisSet(data_json))
    ELSE {_selection_axes.v}

\* The values a caller may pass for an axis: its points, and a value the
\* axis does not have.
CandidateValues(dj, axis) ==
    LET pts == Points(dj, axis)
    IN SeqToSet(pts) \cup {Int_(99)}

\* The axes whose points are a list of ints or strs.
ListAxes(dj) == {a \in KeySet(Coords(dj)) : DictGet(Coords(dj), a).t = "list"}

CandidatePairs(dj) ==
    UNION {{<<a, v>> : v \in CandidateValues(dj, a)} : a \in ListAxes(dj)}

\* The coords_dict arguments the model passes: no axis, one, or two in
\* either insertion order.
CandidateDicts(dj) ==
    {<<>>} \cup {<<pr>> : pr \in CandidatePairs(dj)}
           \cup {<<pp[1], pp[2]>> :
                    pp \in {qq \in CandidatePairs(dj) \X CandidatePairs(dj) :
                               qq[1][1] # qq[2][1]}}

CombInit ==
    /\ \E dj \in Domains :
          /\ NewHandler(dj)
          /\ args \in [param : SeqToSet(param_names(dj)),
                       coords_dict : CandidateDicts(dj)]
    /\ keyLog = <<>>
    /\ ret = NoCall
    /\ expander = None
    /\ interface = None

\* list(handler.get_combinations()): everything the iterator yields.
GetCombinationsCall ==
    \E axes \in SelectionAxesLists :
        /\ _selection_axes' = List_(axes)
        /\ ret' = [op |-> "get_combinations", arg |-> axes,
                   out |-> Ok(get_combinations(data_json, axes)),
                   fetched |-> <<>>]
        /\ UNCHANGED <<data_json, cache, errors, _all_query_keys, _all_data,
                       colours, args, keyLog, expander, interface>>

\* handler._build_indexer(param, coords_dict)
BuildIndexerCall ==
    /\ ret' = [op |-> "_build_indexer",
               arg |-> <<args.param, args.coords_dict>>,
               out |-> _build_indexer(data_json, args.param, args.coords_dict),
               fetched |-> <<>>]
    /\ UNCHANGED <<handlerVars, args, keyLog, expander, interface>>

CombNext == GetCombinationsCall \/ BuildIndexerCall

SpecComb == CombInit /\ [][CombNext]_vars

\* The product of the lengths of the axes in S.
RECURSIVE ProdLen(_, _)
ProdLen(dj, S) ==
    IF S = {} THEN 1
    ELSE LET a == CHOOSE b \in S : TRUE
         IN Len(Points(dj, a)) * ProdLen(dj, S \ {a})

DistinctPoints(dj, S) ==
    \A a \in S : \A i, j \in 1..Len(Points(dj, a)) :
        i # j => Points(dj, a)[i] # Points(dj, a)[j]

(***************************************************************************)
(* C8: get_combinations yields one (parameter, {axis: point}) pair for     *)
(* each parameter and each choice of one point per selection axis (the     *)
(* domain axes not named x, y, latitude or longitude): |parameters| times  *)
(* the product of the axes' lengths pairs, none twice when the points of   *)
(* each axis are distinct, parameter-major and, within one axis, in the    *)
(* coordinate array's order.                                               *)
(***************************************************************************)
C8_CrossProduct ==
    ret.op = "get_combinations" =>
        LET combos == ret.out.v
            params == data_json.parameters
            sel == {a \in KeySet(data_json.axes) :
                       a \notin {AxX, AxY, Latitude, Longitude}}
            m == ProdLen(data_json, sel)
            N == Len(combos)
        IN /\ N = Len(params) * m
           /\ \A i \in 1..N :
                 /\ combos[i][1] = params[((i - 1) \div m) + 1]
                 /\ KeySet(combos[i][2]) = sel
                 /\ \A a \in sel :
                       DictGet(combos[i][2], a) \in SeqToSet(Points(data_json, a))
           /\ \A p \in SeqToSet(params) :
                 \A c \in [sel -> 1..MaxPoints] :
                    (\A a \in sel : c[a] <= Len(Points(data_json, a))) =>
                        \E i \in 1..N :
                            /\ combos[i][1] = p
                            /\ \A a \in sel : DictGet(combos[i][2], a) =
                                                 Points(data_json, a)[c[a]]
           /\ DistinctPoints(data_json, sel) =>
                 \A i, j \in 1..N :
                    i < j =>
                       /\ <<combos[i][1], AsMap(combos[i][2])>> #
                             <<combos[j][1], AsMap(combos[j][2])>>
                       /\ \A a \in sel :
                             (/\ combos[i][1] = combos[j][1]
                              /\ \A b \in sel \ {a} :
                                    DictGet(combos[i][2], b) = DictGet(combos[j][2], b))
                             => ListIndex(Points(data_json, a), DictGet(combos[i][2], a)).v
                                   < ListIndex(Points(data_json, a), DictGet(combos[j][2], a)).v

\* Two parameters and two selection axes of two distinct points each, beside
\* horizontal axes named latitude and longitude.
C8_Witness ==
    /\ ret.op = "get_combinations"
    /\ Len(data_json.parameters) = 2
    /\ Latitude \in KeySet(data_json.axes)
    /\ Len(ret.arg) = 2
    /\ DistinctPoints(data_json, SeqToSet(ret.arg))
    /\ \A a \in SeqToSet(ret.arg) : Len(Points(data_json, a)) = 2
    /\ Len(ret.out.v) = 8

(***************************************************************************)
(* C9: _build_indexer returns one slice per axis of the parameter's        *)
(* axisNames: for an axis of the mapping the slice (i, i+1), i the index   *)
(* of the chosen value in the axis's coordinate array, at the axis's place *)
(* in axisNames; for every other axis the full slice.                      *)
(***************************************************************************)
C9_Indexer ==
    (ret.op = "_build_indexer" /\ ret.out.t = "ok") =>
        LET coords_dict == ret.arg[2]
            names == data_json.ranges[ret.arg[1]].axisNames
            indices == ret.out.v
        IN /\ Len(indices) = Len(names)
           /\ \A k \in 1..Len(names) :
                 IF names[k] \in KeySet(coords_dict)
                 THEN \E i \in 0..(Len(Points(data_json, names[k])) - 1) :
                         /\ Points(data_json, names[k])[i + 1] =
                               DictGet(coords_dict, names[k])
                         /\ indices[k] = [t |-> "slice", v |-> <<i, i + 1>>]
                 ELSE indices[k] = [t |-> "slice", v |-> <<>>]

\* A returned indexer for a mapping of two axes, one of them at a later
\* place of axisNames than in the mapping and chosen at an index above 0.
C9_Witness ==
    /\ ret.op = "_build_indexer"
    /\ ret.out.t = "ok"
    /\ Len(ret.arg[2]) = 2
    /\ \E k \in 2..Len(ret.out.v) :
          /\ ret.out.v[k] = [t |-> "slice", v |-> <<1, 2>>]
          /\ data_json.ranges[ret.arg[1]].axisNames[k] = ret.arg[2][1][1]
    /\ \E k \in 1..Len(ret.out.v) : ret.out.v[k] = [t |-> "slice", v |-> <<>>]

(***************************************************************************)
(* A session of lookups on one handler: get_item and __getitem__ called    *)
(* in any order, each request answered in any of the ways of Outcomes.     *)
(***************************************************************************)
SessionPoints == 2     \* the points of the vertical axis of a session

\* The responses of the sessions: parameter p over x, y and a vertical axis;
\* p's tiles are fetched and of the supported type, or fetched and of
\* another type, or p's values are given inline.
SessionDomains ==
    { MkDomain(<<P>>,
               << <<AxX, StartDesc(0, 10, 2)>>,
                  <<AxY, ValuesDesc(<<Int_(50), Int_(60)>>)>> >>,
               << <<AxZ, ValuesDesc([i \in 1..SessionPoints |-> ZPoint(i)])>> >>,
               <<AxZ, AxY, AxX>>, ti[1], ti[2]) :
        ti \in {<<"TiledNdArray", {}>>, <<"NdArray", {}>>,
                <<"TiledNdArray", {P}>>} }

\* The coords_dict arguments of the sessions: a point of z, or a value z
\* does not have.
SessionDicts(dj) == {<< <<AxZ, v>> >> : v \in CandidateValues(dj, AxZ)}

\* The keys of the sessions: those of the arguments above, the key of an
\* empty mapping, and a key that is no str.
SessionKeys(dj) ==
    {Str_(make_key(pd[1], pd[2])) :
        pd \in SeqToSet(param_names(dj)) \X (SessionDicts(dj) \cup {<<>>})}
    \cup {Int_(0)}

HandlerState ==
    [cache |-> cache, errors |-> errors, colours |-> colours,
     out |-> None, fetched |-> <<>>]

SessionInit ==
    /\ \E dj \in SessionDomains : NewHandler(dj)
    /\ args = None
    /\ keyLog = <<>>
    /\ ret = NoCall
    /\ expander = None
    /\ interface = None

\* The answers to tell apart for a call: the server's matter only when
\* the call sends a request, the libraries' only when it builds a dataset
\* of a result of None.
AnswersFor(dj, cach, param, key, dataset) ==
    IF dj.ranges[param].inline \/ CacheLookup(cach, key) # None
    THEN {<<"ok", "wrap">>}
    ELSE {ol \in Outcomes \X LibChoices :
             ol[2] = "wrap" \/ (dataset /\ ol[1] \in {"exception", "code_data"})}

\* handler.get_item(param, coords_dict, dataset)
GetItemCall ==
    \E param \in SeqToSet(param_names(data_json)),
       coords_dict \in SessionDicts(data_json), dataset \in BOOLEAN :
      \E key \in {make_key(param, coords_dict)} :
        \E ol \in AnswersFor(data_json, cache, param, key, dataset) :
          \E r \in {get_item(data_json, HandlerState, param, coords_dict,
                             dataset, ol[1], ol[2])} :
            /\ cache' = r.cache
            /\ errors' = r.errors
            /\ colours' = r.colours
            /\ ret' = [op |-> "get_item",
                       arg |-> [key |-> Str_(key), dataset |-> dataset],
                       out |-> r.out, fetched |-> r.fetched]
            /\ UNCHANGED <<data_json, _selection_axes, _all_query_keys,
                           _all_data, args, keyLog, expander, interface>>

\* handler[key]
GetItemByKey ==
    \E key \in SessionKeys(data_json) :
      \E ol \in (IF key.t = "str" /\ from_key(key.v).t = "ok"
                 THEN AnswersFor(data_json, cache, from_key(key.v).v[1],
                                 key.v, TRUE)
                 ELSE {<<"ok", "wrap">>}) :
        \E r \in {getitem(data_json, HandlerState, key, ol[1], ol[2])} :
            /\ cache' = r.cache
            /\ errors' = r.errors
            /\ colours' = r.colours
            /\ ret' = [op |-> "__getitem__",
                       arg |-> [key |-> key, dataset |-> TRUE],
                       out |-> r.out, fetched |-> r.fetched]
            /\ UNCHANGED <<data_json, _selection_axes, _all_query_keys,
                           _all_data, args, keyLog, expander, interface>>

Next == GetItemCall \/ GetItemByKey

Spec == SessionInit /\ [][Next]_vars

\* The sessions of a caller that only looks data up by key.
SpecLookup == SessionInit /\ [][GetItemByKey]_vars

\* The array the cache holds for a key, or None.
CachedArray(cach, key) == IF key \in KeySet(cach) THEN DictGet(cach, key) ELSE None

Fetching == data_json.ranges[P].inline = FALSE

\* A call of get_item, directly or through __getitem__ with a string.
IsLookup(r) == r.op \in {"get_item", "__getitem__"} /\ r.arg.key.t = "str"

\* The call sent a request that failed: no response, an error response, or
\* a body that is no JSON.
FailedFetch(r) ==
    /\ IsLookup(r)
    /\ \E i \in 1..Len(r.fetched) : r.fetched[i].answer # "ok"

(***************************************************************************)
(* C1: in one session, for a parameter whose values are not inline, once a *)
(* combination's fetch succeeded every later get_item for it returns the   *)
(* cached array and sends no request: an array enters the cache only with  *)
(* a request for its key answered "ok", it is never replaced, and a call   *)
(* for a key the cache holds an array for sends nothing.                   *)
(***************************************************************************)
C1_AtMostOneFetch ==
    [][ Fetching =>
          /\ \A k \in KeySet(cache) :
                CachedArray(cache, k) # None =>
                    CachedArray(cache', k) = CachedArray(cache, k)
          /\ \A k \in KeySet(cache') :
                (CachedArray(cache', k) # None /\ CachedArray(cache, k) = None) =>
                    /\ ret'.arg.key = Str_(k)
                    /\ Len(ret'.fetched) = 1
                    /\ ret'.fetched[1].answer = "ok"
          /\ (IsLookup(ret') /\ CachedArray(cache, ret'.arg.key.v) # None) =>
                /\ ret'.fetched = <<>>
                /\ ret'.op = "get_item" =>
                      ret'.out = Ok(IF ret'.arg.dataset
                                    THEN Dataset(CachedArray(cache, ret'.arg.key.v))
                                    ELSE CachedArray(cache, ret'.arg.key.v))
      ]_vars

\* A get_item that was served from the cache.
C1_Witness ==
    /\ Fetching
    /\ IsLookup(ret)
    /\ ret.op = "get_item"
    /\ ~ret.arg.dataset
    /\ ret.fetched = <<>>
    /\ ret.out.t = "ok"
    /\ ret.out.v.t = "array"
    /\ ret.out.v = CachedArray(cache, ret.arg.key.v)

C3_CachedLookupReturnsDataset ==
    [][ (ret'.op = "__getitem__" /\ ret'.arg.key.t = "str"
            /\ CachedArray(cache, ret'.arg.key.v) # None)
            => ret'.out = Ok(Dataset(CachedArray(cache, ret'.arg.key.v)))
      ]_vars

(***************************************************************************)
(* The aggregate arrays: DataHandler._get_shape, build_data_array,         *)
(* get_all_data and the properties all_query_keys and all_data.            *)
(***************************************************************************)
\* sorted(self.coords.keys(), key=lambda i: AXES_ORDER.index(i)): the keys
\* are distinct, so this is AXES_ORDER without the axes the domain lacks.
ShapeAxes(dj) == SelectSeq(AXES_ORDER, LAMBDA a : a \in KeySet(Coords(dj)))

\* _get_shape: AXES_ORDER.index raises ValueError for an axis it lacks.
_get_shape(dj) ==
    IF \E a \in KeySet(Coords(dj)) : a \notin SeqToSet(AXES_ORDER)
    THEN Raise("ValueError")
    ELSE Ok([k \in 1..Len(ShapeAxes(dj)) |-> Len(Points(dj, ShapeAxes(dj)[k]))])

\* An element of np.empty that nothing was assigned to; an element taken
\* from the array get_item returned for a query; the NaN a None becomes.
Unwritten == [t |-> "uninitialised", v |-> <<>>]
From(query) == [t |-> "from", v |-> query]
NaN(query) == [t |-> "nan", v |-> query]

MaxOf(shape) ==
    IF shape = <<>> THEN 0
    ELSE CHOOSE n \in SeqToSet(shape) : \A m \in SeqToSet(shape) : m <= n

\* The index tuples of the elements of an array of a shape.
Cells(shape) ==
    {c \in [1..Len(shape) -> 0..(MaxOf(shape) - 1)] :
        \A k \in 1..Len(shape) : c[k] < shape[k]}

\* np.empty(shape)
Empty(shape) ==
    [t |-> "aggregate",
     v |-> [shape |-> shape, cells |-> [c \in Cells(shape) |-> Unwritten]]]

Min(a, b) == IF a < b THEN a ELSE b

\* The range of indices a slice selects of a dimension of n elements.
SliceRange(slc, n) ==
    IF slc = SliceAll THEN <<0, n>>
    ELSE <<Min(slc.v[1], n), Min(slc.v[2], n)>>

\* template_array[inds]: the k-th slice selects of the k-th dimension, the
\* dimensions past the last slice are taken whole.
Block(shape, inds) ==
    [k \in 1..Len(shape) |->
        IF k <= Len(inds) THEN SliceRange(inds[k], shape[k])
        ELSE <<0, shape[k]>>]

BlockShape(b) == [k \in 1..Len(b) |-> b[k][2] - b[k][1]]
InBlock(c, b) == \A k \in 1..Len(b) : b[k][1] <= c[k] /\ c[k] < b[k][2]

\* Whether numpy broadcasts a value of shape vshape into a block.
Broadcasts(vshape, bshape) ==
    /\ Len(vshape) <= Len(bshape)
    /\ \A j \in 1..Len(vshape) :
          vshape[Len(vshape) + 1 - j] \in {1, bshape[Len(bshape) + 1 - j]}

\* The shape of a parameter's tile after the length-1 dimensions are
\* dropped: the axes of axisNames the URL template does not select.
TileShape(dj, param) ==
    LET r == dj.ranges[param]
        names == SelectSeq(r.axisNames, LAMBDA a : a \notin SeqToSet(r.template))
    IN SelectSeq([k \in 1..Len(names) |-> Len(Points(dj, names[k]))],
                 LAMBDA n : n # 1)

\* The shape of an array get_item returned.
ValueShape(dj, param, value) ==
    IF value.v[1] = "tile" THEN TileShape(dj, param)
    ELSE SelectSeq(BlockShape(Block(InlineShape(dj, param), value.v[3])),
                   LAMBDA n : n # 1)

\* template_array[insertion_inds] = array
SetItem(dj, arr, inds, value, query, lib) ==
    LET b == Block(arr.v.shape, inds)
    IN IF Len(inds) > Len(arr.v.shape) THEN Raise("IndexError")
       ELSE IF value = None /\ lib = "raise" THEN Raise("TypeError")
       ELSE IF value # None
               /\ ~Broadcasts(ValueShape(dj, query[1], value), BlockShape(b))
       THEN Raise("ValueError")
       ELSE Ok([arr EXCEPT !.v.cells =
                   [c \in DOMAIN @ |->
                       IF InBlock(c, b)
                       THEN (IF value = None THEN NaN(query) ELSE From(query))
                       ELSE @[c]]])

\* The loop of build_data_array over filter(..., self.all_query_keys): the
\* iterator st.queries is advanced past every query the loop looks at.
\* What a turn of the loop comes to once get_item has returned or raised
\* got and _build_indexer insertion_inds.
TurnWith(dj, st, template_array, query, got, insertion_inds, lib) ==
    LET st2 == [got EXCEPT !.fetched = st.fetched \o got.fetched]
        set == SetItem(dj, template_array, insertion_inds.v, got.out.v,
                       query, lib)
    IN IF got.out.t = "raise"
       THEN [st |-> st2, array |-> template_array, more |-> FALSE]
       ELSE IF insertion_inds.t = "raise"
       THEN [st |-> [st2 EXCEPT !.out = insertion_inds],
             array |-> template_array, more |-> FALSE]
       ELSE IF set.t = "raise"
       THEN [st |-> [st2 EXCEPT !.out = set],
             array |-> template_array, more |-> FALSE]
       ELSE [st |-> st2, array |-> set.v, more |-> TRUE]

\* One turn of the loop: its outcome, and whether the loop goes on.
BuildTurn(dj, st, param_name, template_array, server, lib) ==
    LET query == Head(st.queries)
        st1 == [st EXCEPT !.queries = Tail(@)]
    IN IF query[1] # param_name
       THEN [st |-> st1, array |-> template_array, more |-> TRUE]
       ELSE CHOOSE turn \in
               { TurnWith(dj, st, template_array, query, got, insertion_inds,
                          lib) :
                   got \in {get_item(dj, st1, query[1], query[2], FALSE,
                                     server[make_key(query[1], query[2])], lib)},
                   insertion_inds \in {_build_indexer(dj, query[1], query[2])} } :
               TRUE

RECURSIVE BuildLoop(_, _, _, _, _, _)
BuildLoop(dj, st, param_name, template_array, server, lib) ==
    IF st.queries = <<>> THEN [st EXCEPT !.out = Ok(template_array)]
    ELSE CHOOSE r \in
            { IF turn.more
              THEN BuildLoop(dj, turn.st, param_name, turn.array, server, lib)
              ELSE turn.st :
                turn \in {BuildTurn(dj, st, param_name, template_array,
                                    server, lib)} } : TRUE

\* build_data_array on a handler in state st, whose st.queries is what the
\* iterator it holds as all_query_keys has yet to yield.
build_data_array(dj, st, param_name, server, lib) ==
    IF _get_shape(dj).t = "raise" THEN [st EXCEPT !.out = _get_shape(dj)]
    ELSE BuildLoop(dj, st, param_name, Empty(_get_shape(dj).v), server, lib)

RECURSIVE GetAllDataFrom(_, _, _, _, _, _)
GetAllDataFrom(dj, st, params, params_and_data, server, lib) ==
    IF params = <<>> THEN [st EXCEPT !.out = Ok(params_and_data)]
    ELSE CHOOSE res \in
            { IF r.out.t = "raise" THEN r
              ELSE GetAllDataFrom(dj, r, Tail(params),
                       DictSet(params_and_data, Head(params), r.out.v),
                       server, lib) :
                r \in {build_data_array(dj, st, Head(params), server, lib)} } :
            TRUE

get_all_data(dj, st, server, lib) ==
    GetAllDataFrom(dj, st, param_names(dj), <<>>, server, lib)

\* An iterator itertools.product returned: what it has yet to yield.
Product(queries) == [t |-> "product", v |-> queries]

\* The property all_query_keys, selection_axes listing axes on first use:
\* what the iterator it returns has yet to yield.
all_query_keys(dj, aqk, axes) ==
    IF aqk = None THEN get_combinations(dj, axes) ELSE aqk.v

(***************************************************************************)
(* The handlers the aggregate arrays are built on: one or two parameters   *)
(* over x, y and one or two selection axes, the server declaring the axes  *)
(* of the parameters in the canonical order or in another one, and         *)
(* answering every request well or all but one.                            *)
(***************************************************************************)
AllPoints == 2      \* the points of every axis of these handlers
MaxPasses == 2      \* how many passes over all_query_keys keyLog remembers

AllHorizontal ==
    { << <<AxX, StartDesc(0, 10, AllPoints)>>,
         <<AxY, ValuesDesc([i \in 1..AllPoints |-> Int_(50 + i)])>> >>,
      << <<Longitude, StartDesc(0, 10, AllPoints)>>,
         <<Latitude, ValuesDesc([i \in 1..AllPoints |-> Int_(50 + i)])>> >> }

AllSelection ==
    { << <<AxZ, ValuesDesc([i \in 1..AllPoints |-> ZPoint(i)])>> >>,
      << <<AxT, ValuesDesc([i \in 1..AllPoints |-> TPoint(i)])>>,
         <<AxZ, ValuesDesc([i \in 1..AllPoints |-> ZPoint(i)])>> >> }

Reverse(s) == [k \in 1..Len(s) |-> s[Len(s) + 1 - k]]

\* The selection axes then y, x; the same with the selection axes
\* reversed; x, y then the selection axes.
AllOrders(hor, sel) ==
    { DictKeys(sel) \o <<hor[2][1], hor[1][1]>>,
      Reverse(DictKeys(sel)) \o <<hor[2][1], hor[1][1]>>,
      <<hor[1][1], hor[2][1]>> \o DictKeys(sel) }

AllDomains ==
    UNION { { MkDomain(params, hor, sel, order, "TiledNdArray", {}) :
                params \in ParamLists, order \in AllOrders(hor, sel) } :
            hor \in AllHorizontal, sel \in AllSelection }

\* The keys of all the queries of a handler.
AllKeys(dj) ==
    {make_key(q[1], q[2]) :
        q \in UNION {SeqToSet(get_combinations(dj, axes)) :
                        axes \in ListsOfSet(SelectionAxisSet(dj))}}

\* The server answers every request well, or all but the requests for one
\* key; lib is what the library makes of a None where it wants an array.
Servers(dj) ==
    {[server |-> [k \in AllKeys(dj) |-> "ok"], lib |-> "wrap"]}
    \cup {[server |-> [k \in AllKeys(dj) |-> IF k = bo[1] THEN bo[2] ELSE "ok"],
           lib |-> bo[3]] :
             bo \in {x \in AllKeys(dj) \X (Outcomes \ {"ok"}) \X LibChoices :
                        x[3] = "wrap" \/ x[2] \in {"exception", "code_data"}}}

AllInit ==
    /\ \E dj \in AllDomains : NewHandler(dj) /\ args \in Servers(dj)
    /\ keyLog = <<>>
    /\ ret = NoCall
    /\ expander = None
    /\ interface = None

AllState(queries) ==
    [cache |-> cache, errors |-> errors, colours |-> colours,
     out |-> None, fetched |-> <<>>, queries |-> queries]

\* list(handler.all_query_keys): one complete pass over the iterator.
AllQueryKeysPass ==
    /\ Len(keyLog) < MaxPasses
    /\ \E axes \in SelectionAxesLists :
         LET yielded == all_query_keys(data_json, _all_query_keys, axes)
         IN /\ _selection_axes' = List_(axes)
            /\ _all_query_keys' = Product(<<>>)
            /\ keyLog' = Append(keyLog, yielded)
            /\ ret' = [op |-> "all_query_keys", arg |-> <<>>,
                       out |-> Ok(yielded), fetched |-> <<>>]
    /\ UNCHANGED <<data_json, cache, errors, _all_data, colours, args, expander, interface>>

\* handler.get_all_data()
GetAllDataCall ==
    \E axes \in SelectionAxesLists :
      \E st \in {AllState(all_query_keys(data_json, _all_query_keys, axes))} :
      \E r \in {get_all_data(data_json, st, args.server, args.lib)} :
        /\ _selection_axes' = List_(axes)
        /\ _all_query_keys' = Product(r.queries)
        /\ cache' = r.cache
        /\ errors' = r.errors
        /\ colours' = r.colours
        /\ ret' = [op |-> "get_all_data", arg |-> <<>>, out |-> r.out,
                   fetched |-> r.fetched]
        /\ UNCHANGED <<data_json, _all_data, args, keyLog, expander, interface>>

\* handler.all_data: get_all_data on first use, what was stored afterwards.
AllDataBuild ==
    /\ _all_data = None
    /\ \E axes \in SelectionAxesLists :
        \E st \in {AllState(all_query_keys(data_json, _all_query_keys, axes))} :
        \E r \in {get_all_data(data_json, st, args.server, args.lib)} :
          /\ _selection_axes' = List_(axes)
          /\ _all_query_keys' = Product(r.queries)
          /\ cache' = r.cache
          /\ errors' = r.errors
          /\ colours' = r.colours
          /\ _all_data' = IF r.out.t = "raise" THEN None ELSE Dict_(r.out.v)
          /\ ret' = [op |-> "all_data", arg |-> <<>>, out |-> r.out,
                     fetched |-> r.fetched]
          /\ UNCHANGED <<data_json, args, keyLog, expander, interface>>

AllDataStored ==
    /\ _all_data.t # "none"
    /\ ret' = [op |-> "all_data", arg |-> <<>>, out |-> Ok(_all_data.v),
               fetched |-> <<>>]
    /\ UNCHANGED <<handlerVars, args, keyLog, expander, interface>>

AllNext == AllQueryKeysPass \/ GetAllDataCall \/ AllDataBuild \/ AllDataStored
SpecAll == AllInit /\ [][AllNext]_vars

\* The call built the aggregate arrays, the server answering every request
\* well.
BuiltAllData(r) ==
    /\ r.op \in {"get_all_data", "all_data"}
    /\ r.out.t = "ok"
    /\ \A k \in DOMAIN args.server : args.server[k] = "ok"

\* The queries of a parameter.
QueriesOf(param) ==
    SelectSeq(get_combinations(data_json, _selection_axes.v),
              LAMBDA q : q[1] = param)

(***************************************************************************)
(* C4, as claimed: a pass over all_query_keys that follows a complete pass *)
(* yields the sequence the first pass yielded.  The property hands out one *)
(* itertools.product iterator, which the first pass leaves exhausted.      *)
(***************************************************************************)
C4_ReEnumerable ==
    [][ (ret.op = "all_query_keys" /\ ret'.op = "all_query_keys"
         /\ Len(keyLog') = Len(keyLog) + 1)
            => ret'.out = ret.out
      ]_vars

(***************************************************************************)
(* C5, as claimed: after get_all_data, the server answering every request  *)
(* well, every parameter's array holds at the insertion index of each of   *)
(* the parameter's combinations an array assigned there, and no element of *)
(* it was never written.                                                   *)
(***************************************************************************)
C5_AllAssigned ==
    BuiltAllData(ret) =>
        \A i \in 1..Len(ret.out.v) :
            LET param == ret.out.v[i][1]
                arr == ret.out.v[i][2].v
            IN /\ \A c \in DOMAIN arr.cells : arr.cells[c] # Unwritten
               /\ \A n \in 1..Len(QueriesOf(param)) :
                     LET q == QueriesOf(param)[n]
                         b == Block(arr.shape,
                                    _build_indexer(data_json, q[1], q[2]).v)
                     IN \A c \in DOMAIN arr.cells :
                           InBlock(c, b) => arr.cells[c] # Unwritten

\* The sub-block of the aggregate array that belongs to a combination: the
\* combination's point on each selection axis, all of every other axis.
OwnBlock(dj, coords_dict) ==
    [k \in 1..Len(ShapeAxes(dj)) |->
        LET axis == ShapeAxes(dj)[k]
            idx == ListIndex(Points(dj, axis), DictGet(coords_dict, axis)).v
        IN IF axis \in KeySet(coords_dict) THEN <<idx, idx + 1>>
           ELSE <<0, Len(Points(dj, axis))>>]

(***************************************************************************)
(* C10, as claimed: every element build_data_array assigned for a          *)
(* combination lies in the combination's own sub-block of the aggregate    *)
(* array, whose dimensions are the domain axes in the order e, t, z, y, x, *)
(* whatever the order the server declares the parameter's axes in.         *)
(***************************************************************************)
C10_IndexDesignatesOwnBlock ==
    BuiltAllData(ret) =>
        \A i \in 1..Len(ret.out.v) :
            LET arr == ret.out.v[i][2].v
            IN \A c \in DOMAIN arr.cells :
                  arr.cells[c].t = "from" =>
                      InBlock(c, OwnBlock(data_json, arr.cells[c].v[2]))

(***************************************************************************)
(* ISO8601Expander (src/edr_explorer/util.py): the str methods it uses.    *)
(***************************************************************************)
UpperCase ==
    << "A", "B", "C", "D", "E", "F", "G", "H", "I", "J", "K", "L", "M",
       "N", "O", "P", "Q", "R", "S", "T", "U", "V", "W", "X", "Y", "Z" >>
LowerCase ==
    << "a", "b", "c", "d", "e", "f", "g", "h", "i", "j", "k", "l", "m",
       "n", "o", "p", "q", "r", "s", "t", "u", "v", "w", "x", "y", "z" >>

IsUpper(c) == \E i \in 1..Len(UpperCase) : UpperCase[i] = c

\* c.lower() of one character.
LowerChar(c) ==
    IF IsUpper(c)
    THEN LowerCase[CHOOSE i \in 1..Len(UpperCase) : UpperCase[i] = c]
    ELSE c

\* s.lower()
Lower(s) == [i \in 1..Len(s) |-> LowerChar(s[i])]

\* s.startswith(prefix)
StartsWith(s, prefix) ==
    Len(s) >= Len(prefix) /\ SubSeq(s, 1, Len(prefix)) = prefix

\* s.split(sep) for a separator of any length: at least one piece.  The
\* piece being read starts at start; i is the place looked at.
SepAt(s, sep, i) ==
    /\ i + Len(sep) - 1 <= Len(s)
    /\ \A k \in 1..Len(sep) : s[i + k - 1] = sep[k]
RECURSIVE SplitStrFrom(_, _, _, _)
SplitStrFrom(s, sep, start, i) ==
    IF i > Len(s) THEN <<SubSeq(s, start, Len(s))>>
    ELSE IF SepAt(s, sep, i)
         THEN <<SubSeq(s, start, i - 1)>>
              \o SplitStrFrom(s, sep, i + Len(sep), i + Len(sep))
         ELSE SplitStrFrom(s, sep, start, i + 1)
SplitStr(s, sep) == SplitStrFrom(s, sep, 1, 1)

\* s.strip(c): every leading and every trailing c removed.
RECURSIVE LStrip(_, _)
LStrip(s, c) ==
    IF s # <<>> /\ Head(s) = c THEN LStrip(Tail(s), c) ELSE s
RECURSIVE RStrip(_, _)
RStrip(s, c) ==
    IF s # <<>> /\ s[Len(s)] = c THEN RStrip(SubSeq(s, 1, Len(s) - 1), c)
    ELSE s
Strip(s, c) == RStrip(LStrip(s, c), c)

\* re.split(r"(\d+[A-Z]{1})", s)[1::2]: the matches of the pattern from left
\* to right, each a run of digits and the capital letter that follows it.
\* A run of digits that no capital letter follows matches nothing.
RECURSIVE DurationBitsFrom(_, _)
DurationBitsFrom(s, run) ==
    IF s = <<>> THEN <<>>
    ELSE IF IsDigit(Head(s)) THEN DurationBitsFrom(Tail(s), Append(run, Head(s)))
    ELSE IF IsUpper(Head(s)) /\ run # <<>>
         THEN <<Append(run, Head(s))>> \o DurationBitsFrom(Tail(s), <<>>)
    ELSE DurationBitsFrom(Tail(s), <<>>)
DurationBits(s) == DurationBitsFrom(s, <<>>)

(***************************************************************************)
(* ISO8601Expander: the object and the classification of its elements.     *)
(***************************************************************************)
\* ISO8601Expander.__init__
NewExpander(iso8601_string) ==
    [iso8601_string |-> iso8601_string,
     _datetimes |-> None,
     _datetime_strings |-> None,
     _start_date |-> None,
     _end_date |-> None,
     _repeat |-> None,
     _duration |-> None]

element_not_set == <<"-", "1">>

\* What a method leaves behind: the object as it is when the method ends, and
\* the value it returns or the exception it raises.
Done(obj, out) == [obj |-> obj, out |-> out]

\* The elements of the expression: split at "/", or at "--" when there is no
\* "/" in it.
Elements(iso8601_string) ==
    IF Len(SplitStr(iso8601_string, <<"/">>)) = 1
    THEN SplitStr(iso8601_string, <<"-", "-">>)
    ELSE SplitStr(iso8601_string, <<"/">>)

\* The type the classification gives one element.
ElementType(element) ==
    IF StartsWith(Lower(element), <<"r">>) THEN "repeat"
    ELSE IF StartsWith(Lower(element), <<"p">>) THEN "duration"
    ELSE "datetime"

Types(elements) == [i \in 1..Len(elements) |-> ElementType(elements[i])]

\* The element the loop assigned last to self.repeat or self.duration, or
\* the value the attribute had before when no element is of that type.
LastOfType(elements, type, before) ==
    IF \E i \in 1..Len(elements) : ElementType(elements[i]) = type
    THEN Str_(elements[CHOOSE i \in 1..Len(elements) :
                  /\ ElementType(elements[i]) = type
                  /\ \A j \in (i + 1)..Len(elements) :
                        ElementType(elements[j]) # type])
    ELSE before

\* The 0-based positions of the date-time elements, in order.
RECURSIVE DatetimeIndsFrom(_, _)
DatetimeIndsFrom(types, i) ==
    IF i > Len(types) THEN <<>>
    ELSE (IF types[i] = "datetime" THEN <<i - 1>> ELSE <<>>)
         \o DatetimeIndsFrom(types, i + 1)
datetime_inds(types) == DatetimeIndsFrom(types, 1)

\* The pattern of positions nothing in _classify_string accepts.
BadDatetimeIndsNone(inds) == inds = <<>>
BadDatetimeInds(inds) == inds # <<0, 1>> /\ inds # <<0>> /\ inds # <<1>>

\* The start and end the date-time positions give: <<start, end>>.
StartAndEnd(elements, types) ==
    IF datetime_inds(types) = <<0, 1>> THEN <<elements[1], elements[2]>>
    ELSE IF datetime_inds(types) = <<0>> THEN <<elements[1], element_not_set>>
    ELSE IF types[1] = "duration" THEN <<element_not_set, elements[2]>>
    ELSE <<elements[2], element_not_set>>

\* ISO8601Expander._classify_string
ClassifyElements(self, elements, types) ==
    LET looped == [self EXCEPT
                     !._repeat = LastOfType(elements, "repeat", @),
                     !._duration = LastOfType(elements, "duration", @)]
    IN IF BadDatetimeInds(datetime_inds(types))
       THEN Done(looped, Raise("ValueError: Bad datetime indices."))
       ELSE Done([looped EXCEPT
                    !._start_date = Str_(StartAndEnd(elements, types)[1]),
                    !._end_date = Str_(StartAndEnd(elements, types)[2]),
                    !._duration = IF \E i \in 1..Len(types) : types[i] = "duration"
                                  THEN @ ELSE Str_(element_not_set),
                    !._repeat = IF \E i \in 1..Len(types) : types[i] = "repeat"
                                THEN @ ELSE Str_(element_not_set)],
                 Ok(None))

_classify_string(self) ==
    CHOOSE r \in {ClassifyElements(self, elements, Types(elements)) :
                     elements \in {Elements(self.iso8601_string)}} : TRUE

\* The properties start_date, end_date, duration and repeat: the attribute,
\* classified first when it is still None.
Attribute(self, name) ==
    IF self[name].t # "none" THEN Done(self, Ok(self[name]))
    ELSE CHOOSE r \in {IF c.out.t = "raise" THEN c
                       ELSE Done(c.obj, Ok(c.obj[name])) :
                          c \in {_classify_string(self)}} : TRUE

(***************************************************************************)
(* datetime.datetime and datetime.timedelta.  A datetime is its proleptic  *)
(* Gregorian ordinal (1 for 0001-01-01) and the second of its day; a       *)
(* timedelta is normalised to days and seconds with 0 <= seconds < 86400.  *)
(***************************************************************************)
SecondsPerDay == 24 * 60 * 60
Datetime_(days, seconds) ==
    [t |-> "datetime", v |-> [days |-> days, seconds |-> seconds]]
Timedelta_(days, seconds) ==
    [t |-> "timedelta", v |-> [days |-> days, seconds |-> seconds]]

IsLeap(year) == year % 4 = 0 /\ (year % 100 # 0 \/ year % 400 = 0)
DaysInMonth(year, month) ==
    IF month = 2 THEN (IF IsLeap(year) THEN 29 ELSE 28)
    ELSE IF month \in {4, 6, 9, 11} THEN 30 ELSE 31
RECURSIVE DaysBeforeMonth(_, _)
DaysBeforeMonth(year, month) ==
    IF month = 1 THEN 0
    ELSE DaysBeforeMonth(year, month - 1) + DaysInMonth(year, month - 1)
DaysBeforeYear(year) ==
    (year - 1) * 365 + (year - 1) \div 4 - (year - 1) \div 100
        + (year - 1) \div 400
\* datetime.toordinal()
Ordinal(year, month, day) ==
    DaysBeforeYear(year) + DaysBeforeMonth(year, month) + day
\* datetime.max.toordinal(): 9999-12-31
MaxOrdinal == Ordinal(9999, 12, 31)

\* datetime.datetime(year, month, day, hour, minute, second)
MakeDatetime(f) ==
    IF /\ f.Y >= 1
       /\ f.d <= DaysInMonth(f.Y, f.m)
       /\ f.S <= 59
    THEN Ok(Datetime_(Ordinal(f.Y, f.m, f.d), f.H * 3600 + f.M * 60 + f.S))
    ELSE Raise("ValueError")

\* datetime.timedelta(days=..., hours=..., minutes=...)
timedelta(days, hours, minutes) ==
    LET total == days * SecondsPerDay + hours * 3600 + minutes * 60
    IN Timedelta_(total \div SecondsPerDay, total % SecondsPerDay)

\* A datetime from a count of days and a count of seconds that may lie
\* outside the day: OverflowError outside datetime.min .. datetime.max.
Carry(days, seconds) ==
    LET d == days + seconds \div SecondsPerDay
    IN IF d < 1 \/ d > MaxOrdinal THEN Raise("OverflowError")
       ELSE Ok(Datetime_(d, seconds % SecondsPerDay))
\* operator.add(date, delta) and operator.sub(date, delta)
add(date, delta) ==
    IF delta.t # "timedelta" THEN Raise("TypeError")
    ELSE Carry(date.v.days + delta.v.days, date.v.seconds + delta.v.seconds)
sub(date, delta) ==
    IF delta.t # "timedelta" THEN Raise("TypeError")
    ELSE Carry(date.v.days - delta.v.days, date.v.seconds - delta.v.seconds)

\* date1 < date2
DatetimeLess(a, b) ==
    \/ a.v.days < b.v.days
    \/ a.v.days = b.v.days /\ a.v.seconds < b.v.seconds

(***************************************************************************)
(* datetime.datetime.strptime for the two formats of the class.  A format  *)
(* is a sequence of items: a directive, <<"%", letter>>, or a literal      *)
(* character, <<character>>.                                               *)
(***************************************************************************)
isofmt_short ==
    << <<"%", "Y">>, <<"-">>, <<"%", "m">>, <<"-">>, <<"%", "d">>, <<"T">>,
       <<"%", "H">>, <<":">>, <<"%", "M">>, <<"Z">> >>
isofmt ==
    << <<"%", "Y">>, <<"-">>, <<"%", "m">>, <<"-">>, <<"%", "d">>, <<"T">>,
       <<"%", "H">>, <<":">>, <<"%", "M">>, <<":">>, <<"%", "S">>, <<"Z">> >>

\* The digits a string starts with.
RECURSIVE DigitRun(_)
DigitRun(s) ==
    IF s # <<>> /\ IsDigit(Head(s)) THEN <<Head(s)>> \o DigitRun(Tail(s))
    ELSE <<>>

\* Whether a run of digits is text the directive accepts: four digits for
\* %Y, one or two digits in the directive's range for the others.
DirectiveAccepts(letter, run) ==
    LET n == DigitsToNat(run, 0)
    IN IF letter = "Y" THEN Len(run) = 4
       ELSE /\ Len(run) \in {1, 2}
            /\ CASE letter = "m" -> n \in 1..12
                 [] letter = "d" -> n \in 1..31
                 [] letter = "H" -> n \in 0..23
                 [] letter = "M" -> n \in 0..59
                 [] letter = "S" -> n \in 0..61

\* The fields read from the string under the format, or ValueError: the
\* text must match the whole format, letters without regard to case.
RECURSIVE ReadFields(_, _, _)
ReadFields(s, format, fields) ==
    IF format = <<>>
    THEN (IF s = <<>> THEN Ok(fields) ELSE Raise("ValueError"))
    ELSE IF Len(Head(format)) = 1
    THEN (IF s # <<>> /\ LowerChar(Head(s)) = LowerChar(Head(format)[1])
          THEN ReadFields(Tail(s), Tail(format), fields)
          ELSE Raise("ValueError"))
    ELSE IF DirectiveAccepts(Head(format)[2], DigitRun(s))
    THEN ReadFields(SubSeq(s, Len(DigitRun(s)) + 1, Len(s)), Tail(format),
                    [fields EXCEPT ![Head(format)[2]] =
                                       DigitsToNat(DigitRun(s), 0)])
    ELSE Raise("ValueError")

strptime(date_string, format) ==
    CHOOSE r \in {IF f.t = "raise" THEN f ELSE MakeDatetime(f.v) :
                     f \in {ReadFields(date_string, format,
                                       [Y |-> 1900, m |-> 1, d |-> 1,
                                        H |-> 0, M |-> 0, S |-> 0])}} : TRUE

(***************************************************************************)
(* ISO8601Expander: repeat, duration and date-time elements.               *)
(***************************************************************************)
\* ISO8601Expander._get_unit
MonthsAlways(dt_type) == "months"
MonthsOrMinutes(dt_type) == IF dt_type = "date" THEN "months" ELSE "minutes"
_get_unit(unit_letter, dt_type) ==
    CASE LowerChar(unit_letter) = "y" -> Ok("years")
      [] LowerChar(unit_letter) = "m" -> Ok(MonthsOrMinutes(dt_type))
      [] LowerChar(unit_letter) = "d" -> Ok("days")
      [] LowerChar(unit_letter) = "h" -> Ok("hours")
      [] OTHER -> Raise("ValueError: Bad unit letter")

\* ISO8601Expander._split_duration: the loop over the bits, from bits_dict.
RECURSIVE SplitDurationFrom(_, _, _)
SplitDurationFrom(bits, datetime_type, bits_dict) ==
    IF bits = <<>> THEN Ok(bits_dict)
    ELSE LET bit == Head(bits)
             unit == _get_unit(bit[Len(bit)], datetime_type)
             value == StrToInt(SubSeq(bit, 1, Len(bit) - 1))
         IN IF unit.t = "raise" THEN unit
            ELSE IF value.t = "raise" THEN value
            ELSE SplitDurationFrom(Tail(bits), datetime_type,
                                   DictSet(bits_dict, unit.v, value.v))
_split_duration(duration_str, datetime_type) ==
    SplitDurationFrom(DurationBits(duration_str), datetime_type, <<>>)

\* dict.pop(key, 0) read as a value: the entry, or 0.
PopOr0(d, k) == IF k \in KeySet(d) THEN DictGet(d, k) ELSE 0

\* dict.update(other)
RECURSIVE Update(_, _)
Update(d, other) ==
    IF other = <<>> THEN d
    ELSE Update(DictSet(d, Head(other)[1], Head(other)[2]), Tail(other))

\* ISO8601Expander._duration_to_timedelta
_duration_to_timedelta(duration_bits) ==
    timedelta(PopOr0(duration_bits, "years") * 365
                  + PopOr0(duration_bits, "months") * 30
                  + PopOr0(duration_bits, "days"),
              PopOr0(duration_bits, "hours"),
              PopOr0(duration_bits, "minutes"))

\* The time delta of a duration element: lines 214 to 218.
DurationDelta(duration) ==
    LET parts == Split(Strip(duration, "P"), "T")
    IN IF Len(parts) < 2
       THEN Raise("ValueError: not enough values to unpack")
       ELSE IF Len(parts) > 2
       THEN Raise("ValueError: too many values to unpack")
       ELSE LET time_bits == _split_duration(parts[2], "time")
                date_bits == _split_duration(parts[1], "date")
            IN IF time_bits.t = "raise" THEN time_bits
               ELSE IF Len(parts[1]) = 0
               THEN Ok(_duration_to_timedelta(time_bits.v))
               ELSE IF date_bits.t = "raise" THEN date_bits
               ELSE Ok(_duration_to_timedelta(Update(time_bits.v,
                                                     date_bits.v)))

\* ISO8601Expander._handle_duration
_handle_duration(self) ==
    CHOOSE r \in {IF a.out.t = "raise" THEN a
                  ELSE IF a.out.v.v = element_not_set THEN Done(a.obj, Ok(None))
                  ELSE Done(a.obj, DurationDelta(a.out.v.v)) :
                     a \in {Attribute(self, "_duration")}} : TRUE

\* ISO8601Expander._handle_repeat
_handle_repeat(self) ==
    CHOOSE r \in {IF a.out.t = "raise" THEN a
                  ELSE IF a.out.v.v = element_not_set THEN Done(a.obj, Ok(1))
                  ELSE Done(a.obj, StrToInt(Strip(a.out.v.v, "R"))) :
                     a \in {Attribute(self, "_repeat")}} : TRUE

\* The two attempts of _handle_datetime: the long format's result when it
\* parses, else the short format's, else result was never bound.
ParseDatetime(dt) ==
    IF strptime(dt, isofmt).t = "ok" THEN strptime(dt, isofmt)
    ELSE IF strptime(dt, isofmt_short).t = "ok" THEN strptime(dt, isofmt_short)
    ELSE Raise("UnboundLocalError")

\* ISO8601Expander._handle_datetime
_handle_datetime(self, ref) ==
    CHOOSE r \in {IF a.out.t = "raise" THEN a
                  ELSE IF a.out.v.v = element_not_set THEN Done(a.obj, Ok(None))
                  ELSE Done(a.obj, ParseDatetime(a.out.v.v)) :
                     a \in {Attribute(self, IF ref = "start" THEN "_start_date"
                                            ELSE "_end_date")}} : TRUE

(***************************************************************************)
(* ISO8601Expander._build_datetimes and the datetimes property.            *)
(***************************************************************************)
\* math_func(date, duration)
math_func_sub(name, date, duration) == sub(date, duration)
math_func(name, date, duration) ==
    IF name = "add" THEN add(date, duration) ELSE sub(date, duration)

\* The loop of lines 272 to 275 on self.datetimes: the list as the loop
\* leaves it, and None or the exception that ended it.
RECURSIVE RepeatLoop(_, _, _, _, _)
RepeatLoop(name, date, duration, turns, datetimes) ==
    IF turns <= 0 THEN [datetimes |-> datetimes, out |-> Ok(None)]
    ELSE CHOOSE r \in
            {IF new_date.t = "raise"
             THEN [datetimes |-> datetimes, out |-> new_date]
             ELSE RepeatLoop(name, new_date.v, duration, turns - 1,
                             Append(datetimes, new_date.v)) :
                new_date \in {math_func(name, date, duration)}} : TRUE

\* self.datetimes[::-1], or the list as it is.
Unreversed(reverse, datetimes) == datetimes
Reversed(reverse, datetimes) ==
    IF reverse THEN Reverse(datetimes) ELSE datetimes

\* The else branch of lines 259 to 278: the expansion from the one date
\* that is known.
ExpandFrom(self, name, date, repeat, duration) ==
    CHOOSE r \in
        {IF l.out.t = "raise"
         THEN Done([self EXCEPT !._datetimes = List_(l.datetimes)], l.out)
         ELSE Done([self EXCEPT !._datetimes =
                                    List_(Reversed(name = "sub", l.datetimes))],
                   Ok(None)) :
            l \in {RepeatLoop(name, date, duration, repeat, <<date>>)}} : TRUE

\* Lines 255 to 278, from the four values the handlers returned.
StartAlone(start_date, end_date, duration) ==
    start_date.t # "none" /\ end_date.t = "none" /\ duration.t = "none"
Pair(start_date, end_date) == start_date.t # "none" /\ end_date.t # "none"
BuildFrom(self, start_date, end_date, repeat, duration) ==
    IF StartAlone(start_date, end_date, duration)
    THEN Done([self EXCEPT !._datetimes = List_(<<start_date>>)], Ok(None))
    ELSE IF Pair(start_date, end_date)
    THEN Done([self EXCEPT !._datetimes = List_(<<start_date, end_date>>)],
              Ok(None))
    ELSE IF end_date.t = "none" /\ start_date.t # "none"
    THEN ExpandFrom(self, "add", start_date, repeat, duration)
    ELSE IF start_date.t = "none" /\ end_date.t # "none"
    THEN ExpandFrom(self, "sub", end_date, repeat, duration)
    ELSE Done(self, Raise("ValueError: Invalid ISO8601 date string."))

\* ISO8601Expander._build_datetimes
_build_datetimes(self) ==
    CHOOSE r \in UNION {
        IF s.out.t = "raise" THEN {s} ELSE UNION {
        IF e.out.t = "raise" THEN {e} ELSE UNION {
        IF n.out.t = "raise" THEN {n} ELSE
        {IF d.out.t = "raise" THEN d
         ELSE BuildFrom(d.obj, s.out.v, e.out.v, n.out.v, d.out.v) :
            d \in {_handle_duration(n.obj)}} :
            n \in {_handle_repeat(e.obj)}} :
            e \in {_handle_datetime(s.obj, "end")}} :
            s \in {_handle_datetime(self, "start")}} : TRUE

\* The datetimes property.
datetimes(self) ==
    IF self._datetimes.t # "none" THEN Done(self, Ok(self._datetimes))
    ELSE CHOOSE r \in {IF b.out.t = "raise" THEN b
                       ELSE Done(b.obj, Ok(b.obj._datetimes)) :
                          b \in {_build_datetimes(self)}} : TRUE

(***************************************************************************)
(* The expressions the expander is given: each element is written from the *)
(* numbers it stands for, and remembered with them.                        *)
(***************************************************************************)
MaxElements == 3      \* elements of one expression
MaxRepeat == 2        \* the largest repeat count written
MaxAmount == 1        \* the largest amount of one unit in a duration

\* An element: the type its author meant, its text, and what it stands for
\* (None when it stands for nothing).
Element(kind, text, val) == [kind |-> kind, text |-> text, val |-> val]

\* n in decimal, zero-padded to a width.
RECURSIVE ZeroPad(_, _)
ZeroPad(s, width) == IF Len(s) >= width THEN s ELSE ZeroPad(<<"0">> \o s, width)

\* The text of date and time fields under a format.
RECURSIVE FormatFields(_, _)
FormatFields(f, format) ==
    IF format = <<>> THEN <<>>
    ELSE (IF Len(Head(format)) = 1 THEN Head(format)
          ELSE ZeroPad(IntToStr(f[Head(format)[2]]),
                       IF Head(format)[2] = "Y" THEN 4 ELSE 2))
         \o FormatFields(f, Tail(format))

\* The date-time the fields stand for.
FieldsValue(f) ==
    Datetime_(Ordinal(f.Y, f.m, f.d), f.H * 3600 + f.M * 60 + f.S)

DatetimeElements ==
    { Element("datetime", FormatFields(f, isofmt_short), FieldsValue(f)) :
         f \in { [Y |-> 2020, m |-> 1, d |-> 3, H |-> 0, M |-> 0, S |-> 0] } }
    \cup
    { Element("datetime", FormatFields(f, isofmt), FieldsValue(f)) :
         f \in { [Y |-> 2019, m |-> 12, d |-> 31, H |-> 23, M |-> 30,
                  S |-> 15] } }

\* A duration's amounts, -1 for a unit that is not written, and whether the
\* "T" is written; the time units are written after a "T" only.
Amounts == {-1} \cup 0..MaxAmount
DurationFields ==
    { f \in [Y : Amounts, Mo : Amounts, D : Amounts, h : Amounts,
             mi : Amounts, T : BOOLEAN] :
         ~f.T => f.h = -1 /\ f.mi = -1 }

Unit(amount, letter) ==
    IF amount = -1 THEN <<>> ELSE IntToStr(amount) \o <<letter>>
DurationText(f) ==
    <<"P">> \o Unit(f.Y, "Y") \o Unit(f.Mo, "M") \o Unit(f.D, "D")
        \o (IF f.T THEN <<"T">> \o Unit(f.h, "H") \o Unit(f.mi, "M")
            ELSE <<>>)

\* The days and the seconds the amounts stand for, a year being 365 days
\* and a month 30.
Written(amount) == IF amount = -1 THEN 0 ELSE amount
DurationDays(f) == 365 * Written(f.Y) + 30 * Written(f.Mo) + Written(f.D)
DurationSeconds(f) == 3600 * Written(f.h) + 60 * Written(f.mi)
DurationElement(f) ==
    Element("duration", DurationText(f),
            Timedelta_(DurationDays(f) + DurationSeconds(f) \div SecondsPerDay,
                       DurationSeconds(f) % SecondsPerDay))

\* The durations written in the expressions of several elements: one day,
\* with the "T" and without it.
FewDurations ==
    { f \in DurationFields :
         f.Y = -1 /\ f.Mo = -1 /\ f.D = 1 /\ f.h = -1 /\ f.mi = -1 }

RepeatElements ==
    { Element("repeat", <<"R">> \o IntToStr(n), Int_(n)) : n \in 0..MaxRepeat }
    \cup { Element("repeat", <<"R">>, None) }

Literals ==
    DatetimeElements \cup {DurationElement(f) : f \in FewDurations}
        \cup RepeatElements

Separators == { <<"/">>, <<"-", "-">> }

ElementLists ==
    UNION { [1..n -> Literals] : n \in 1..MaxElements }

\* start/duration and duration/end with every duration.
DurationLists ==
    { <<d, DurationElement(f)>> : d \in DatetimeElements, f \in DurationFields }
    \cup { <<DurationElement(f), d>> : d \in DatetimeElements,
                                       f \in DurationFields }

\* The expressions: every list of elements written with "/", and the lists
\* of a date-time and a duration written with either separator.
Expressions ==
    { [elements |-> elements, sep |-> <<"/">>] : elements \in ElementLists }
    \cup { [elements |-> elements, sep |-> sep] :
              elements \in DurationLists, sep \in Separators }

Texts(elements) == [i \in 1..Len(elements) |-> elements[i].text]

ExpanderInit ==
    /\ IdleHandler
    /\ args \in Expressions
    /\ expander = NewExpander(Join(args.sep, Texts(args.elements)))
    /\ interface = None
    /\ keyLog = <<>>
    /\ ret = NoCall

DatetimesGet ==
    /\ \E r \in {datetimes(expander)} :
          /\ expander' = r.obj
          /\ ret' = [op |-> "datetimes", arg |-> <<>>, out |-> r.out,
                     fetched |-> <<>>]
    /\ UNCHANGED <<handlerVars, args, keyLog, interface>>

HandleDurationCall ==
    /\ \E r \in {_handle_duration(expander)} :
          /\ expander' = r.obj
          /\ ret' = [op |-> "_handle_duration", arg |-> <<>>, out |-> r.out,
                     fetched |-> <<>>]
    /\ UNCHANGED <<handlerVars, args, keyLog, interface>>

ExpanderNext == DatetimesGet \/ HandleDurationCall

SpecExpander == ExpanderInit /\ [][ExpanderNext]_vars

(***************************************************************************)
(* What the claims about the expansion speak of.                           *)
(***************************************************************************)
Kinds(elements) == [i \in 1..Len(elements) |-> elements[i].kind]

\* The last call was the datetimes property.
AskedDatetimes == ret.op = "datetimes"

\* The date from which a delta was added (or taken, times < 0) so many times.
Shifted(date, delta, times) ==
    Datetime_(date.v.days + times * delta.v.days
                  + (date.v.seconds + times * delta.v.seconds) \div SecondsPerDay,
              (date.v.seconds + times * delta.v.seconds) % SecondsPerDay)

\* The element of a kind in a list that has one, and the count a list's
\* repeat element stands for: 1 when it has none.
TheElement(elements, kind) ==
    elements[CHOOSE i \in 1..Len(elements) : elements[i].kind = kind]
CountOf(elements) ==
    IF \E i \in 1..Len(elements) : elements[i].kind = "repeat"
    THEN TheElement(elements, "repeat").val
    ELSE Int_(1)

\* The delta the code converts a list's duration element to.
DeltaOf(elements) == DurationDelta(TheElement(elements, "duration").text)

(***************************************************************************)
(* C11, as claimed: when elements 0 and 1 of the expression are both       *)
(* date-times, the expansion is the two points [start, end], whatever      *)
(* duration and repeat elements follow them.                               *)
(***************************************************************************)
C11_ExplicitPairWins ==
    (/\ AskedDatetimes
     /\ Len(args.elements) >= 2
     /\ args.elements[1].kind = "datetime"
     /\ args.elements[2].kind = "datetime"
     /\ \A i \in 3..Len(args.elements) : args.elements[i].kind # "datetime")
    => ret.out = Ok(List_(<<args.elements[1].val, args.elements[2].val>>))

(***************************************************************************)
(* C12: for start/duration, start/duration/Rn and Rn/start/duration, the   *)
(* duration converting to a delta d and n being the repeat count (1 with   *)
(* no repeat element), the expansion is start, start+d, ..., start+n*d.    *)
(***************************************************************************)
ForwardForms ==
    { <<"datetime", "duration">>, <<"datetime", "duration", "repeat">>,
      <<"repeat", "datetime", "duration">> }

C12_ForwardExpansion ==
    (/\ AskedDatetimes
     /\ Kinds(args.elements) \in ForwardForms
     /\ DeltaOf(args.elements).t = "ok"
     /\ CountOf(args.elements).t = "int")
    => ret.out =
          Ok(List_([k \in 1..(CountOf(args.elements).v + 1) |->
                       Shifted(TheElement(args.elements, "datetime").val,
                               DeltaOf(args.elements).v, k - 1)]))

C12_Witness ==
    /\ AskedDatetimes
    /\ Kinds(args.elements) = <<"repeat", "datetime", "duration">>
    /\ CountOf(args.elements) = Int_(2)
    /\ ret.out.t = "ok"
    /\ Len(ret.out.v.v) = 3
    /\ DatetimeLess(ret.out.v.v[1], ret.out.v.v[2])
    /\ DatetimeLess(ret.out.v.v[2], ret.out.v.v[3])

(***************************************************************************)
(* C13: for duration/end and duration/end/Rn, the duration converting to a *)
(* delta d and n being the repeat count (1 with no repeat element), the    *)
(* date-time is the end and the expansion is end-n*d, ..., end-d, end.     *)
(***************************************************************************)
BackwardForms ==
    { <<"duration", "datetime">>, <<"duration", "datetime", "repeat">> }

C13_BackwardExpansion ==
    (/\ AskedDatetimes
     /\ Kinds(args.elements) \in BackwardForms
     /\ DeltaOf(args.elements).t = "ok"
     /\ CountOf(args.elements).t = "int")
    => /\ expander._end_date = Str_(TheElement(args.elements, "datetime").text)
       /\ expander._start_date = Str_(element_not_set)
       /\ ret.out =
             Ok(List_([k \in 1..(CountOf(args.elements).v + 1) |->
                          Shifted(TheElement(args.elements, "datetime").val,
                                  DeltaOf(args.elements).v,
                                  k - 1 - CountOf(args.elements).v)]))

C13_Witness ==
    /\ AskedDatetimes
    /\ Kinds(args.elements) = <<"duration", "datetime", "repeat">>
    /\ CountOf(args.elements) = Int_(2)
    /\ ret.out.t = "ok"
    /\ Len(ret.out.v.v) = 3
    /\ ret.out.v.v[3] = TheElement(args.elements, "datetime").val
    /\ DatetimeLess(ret.out.v.v[1], ret.out.v.v[2])

\* The list the claims expect of a backward expansion: the end the delta
\* was taken from count times, up to the end itself.
BackwardFrom(end, delta, count) ==
    [k \in 1..(count + 1) |-> Shifted(end, delta, k - 1 - count)]
\* The list the claims expect of a forward expansion.
ForwardFrom(start, delta, count) ==
    [k \in 1..(count + 1) |-> Shifted(start, delta, k - 1)]

(***************************************************************************)
(* C14, as claimed: <duration>/R<n>/<end> is accepted and expands backward *)
(* from the end to end-n*d, ..., end, d being what the duration stands     *)
(* for.                                                                    *)
(***************************************************************************)
C14_DurationRepeatEndExpands ==
    (/\ AskedDatetimes
     /\ Kinds(args.elements) = <<"duration", "repeat", "datetime">>
     /\ CountOf(args.elements).t = "int")
    => ret.out = Ok(List_(BackwardFrom(args.elements[3].val,
                                       args.elements[1].val,
                                       CountOf(args.elements).v)))

(***************************************************************************)
(* C14, amended: <duration>/R<n>/<end> is rejected.  Its only date-time is *)
(* at position 2, so the classification raises "Bad datetime indices." and *)
(* no sequence is built.                                                   *)
(***************************************************************************)
C14_DurationRepeatEndRejected ==
    (/\ AskedDatetimes
     /\ Kinds(args.elements) = <<"duration", "repeat", "datetime">>)
    => /\ ret.out = Raise("ValueError: Bad datetime indices.")
       /\ expander._datetimes = None

C14_Witness ==
    /\ AskedDatetimes
    /\ Texts(args.elements) =
          << <<"P", "1", "D">>, <<"R", "1">>,
             <<"2", "0", "2", "0", "-", "0", "1", "-", "0", "3", "T",
               "0", "0", ":", "0", "0", "Z">> >>
    /\ ret.out.t = "raise"

(***************************************************************************)
(* C15, as claimed: a duration with a date part only and no "T" is         *)
(* accepted and stands for its days, so start/<duration>/Rn expands to     *)
(* start, start+d, ..., start+n*d.                                         *)
(***************************************************************************)
HasT(text) == \E i \in 1..Len(text) : text[i] = "T"

C15_DateOnlyDuration ==
    (/\ AskedDatetimes
     /\ Kinds(args.elements) = <<"datetime", "duration", "repeat">>
     /\ ~HasT(args.elements[2].text)
     /\ CountOf(args.elements).t = "int")
    => ret.out = Ok(List_(ForwardFrom(args.elements[1].val,
                                      args.elements[2].val,
                                      CountOf(args.elements).v)))

(***************************************************************************)
(* C16, as claimed: every sequence the expansion returns is in ascending   *)
(* order, no point earlier than the one before it.                         *)
(***************************************************************************)
C16_Ascending ==
    (AskedDatetimes /\ ret.out.t = "ok")
    => \A i \in 1..(Len(ret.out.v.v) - 1) :
          ~DatetimeLess(ret.out.v.v[i + 1], ret.out.v.v[i])

(***************************************************************************)
(* C17, as claimed: no point occurs twice in a sequence the expansion      *)
(* returns.                                                                *)
(***************************************************************************)
C17_NoDuplicates ==
    (AskedDatetimes /\ ret.out.t = "ok")
    => \A i, j \in 1..Len(ret.out.v.v) :
          i # j => ret.out.v.v[i] # ret.out.v.v[j]

(***************************************************************************)
(* C18: an expression whose date-times are not at position 0 alone, at     *)
(* position 1 alone or at positions 0 and 1 fails with "Bad datetime       *)
(* indices." and no sequence is built.                                     *)
(***************************************************************************)
DatetimePositions(elements) ==
    {i - 1 : i \in {j \in 1..Len(elements) : elements[j].kind = "datetime"}}

C18_BadPositionsRejected ==
    (/\ AskedDatetimes
     /\ DatetimePositions(args.elements) \notin {{0}, {1}, {0, 1}})
    => /\ ret.out = Raise("ValueError: Bad datetime indices.")
       /\ expander._datetimes = None

C18_Witness ==
    /\ AskedDatetimes
    /\ DatetimePositions(args.elements) = {0, 1, 2}
    /\ ret.out.t = "raise"
    /\ expander._datetimes = None

(***************************************************************************)
(* C19, as claimed: a repeat element that is "R" alone means one repeat;   *)
(* the expression expands as it does with "R1".                            *)
(***************************************************************************)
C19_BareRepeatIsOne ==
    (/\ AskedDatetimes
     /\ Kinds(args.elements) \in ForwardForms \cup BackwardForms
     /\ \E i \in 1..Len(args.elements) : args.elements[i].text = <<"R">>
     /\ DeltaOf(args.elements).t = "ok")
    => ret.out =
          Ok(List_(IF Kinds(args.elements) \in ForwardForms
                   THEN ForwardFrom(TheElement(args.elements, "datetime").val,
                                    DeltaOf(args.elements).v, 1)
                   ELSE BackwardFrom(TheElement(args.elements, "datetime").val,
                                     DeltaOf(args.elements).v, 1)))

(***************************************************************************)
(* C20: a duration written with its "T" converts to (365*Y + 30*M + D)     *)
(* days, h hours and m minutes, Y, M, D being the amounts before the "T"   *)
(* and h, m the amounts after it: an M before the "T" counts months, an M  *)
(* after it minutes.                                                       *)
(***************************************************************************)
AskedDuration == ret.op = "_handle_duration"

C20_DurationToTimedelta ==
    (/\ AskedDuration
     /\ Kinds(args.elements) \in {<<"datetime", "duration">>,
                                  <<"duration", "datetime">>}
     /\ HasT(TheElement(args.elements, "duration").text))
    => ret.out = Ok(TheElement(args.elements, "duration").val)

C20_Witness ==
    /\ AskedDuration
    /\ Len(args.elements) = 2
    /\ args.elements[2].text =
          DurationText([Y |-> 1, Mo |-> 1, D |-> 1, h |-> 1, mi |-> 1,
                        T |-> TRUE])
    /\ ret.out = Ok(Timedelta_(365 + 30 + 1, 3600 + 60))

(***************************************************************************)
(* Expressions with an element that is not well formed: a date-time        *)
(* candidate neither format accepts, or a duration outside the grammar     *)
(* P[nY][nM][nD][T[nH][nM]].  Such an element stands for nothing.          *)
(***************************************************************************)
MaxOddElements == 2   \* elements of one such expression

DateOnly == << <<"%", "Y">>, <<"-">>, <<"%", "m">>, <<"-">>, <<"%", "d">> >>

\* A date without a time, a month 13 and a 30th of February.
JunkDatetimes ==
    { Element("datetime", FormatFields(f, DateOnly), None) :
         f \in { [Y |-> 2020, m |-> 1, d |-> 2, H |-> 0, M |-> 0, S |-> 0] } }
    \cup
    { Element("datetime", FormatFields(f, isofmt_short), None) :
         f \in { [Y |-> 2020, m |-> 13, d |-> 1, H |-> 0, M |-> 0, S |-> 0],
                 [Y |-> 2020, m |-> 2, d |-> 30, H |-> 0, M |-> 0, S |-> 0] } }

\* A unit letter the grammar does not have after the "T" and before it, an
\* amount without a unit letter, and a unit letter in lower case.
MalformedDurations ==
    { Element("duration", text, None) :
         text \in { <<"P", "T", "5", "S">>, <<"P", "5", "W", "T">>,
                    <<"P", "T", "5">>, <<"P", "T", "5", "h">> } }

OddElements == JunkDatetimes \cup MalformedDurations

IsOdd(element) == element.val.t = "none" /\ element.kind # "repeat"

OddLists ==
    { elements \in UNION { [1..n -> Literals \cup OddElements] :
                              n \in 1..MaxOddElements } :
         \E i \in 1..Len(elements) : IsOdd(elements[i]) }

MalformedInit ==
    /\ IdleHandler
    /\ args \in { [elements |-> elements, sep |-> <<"/">>] :
                     elements \in OddLists }
    /\ expander = NewExpander(Join(args.sep, Texts(args.elements)))
    /\ interface = None
    /\ keyLog = <<>>
    /\ ret = NoCall

SpecMalformed == MalformedInit /\ [][ExpanderNext]_vars

\* The errors a duration that cannot be read raises.
DurationParseErrors ==
    { Raise("ValueError: Bad unit letter"),
      Raise("ValueError: not enough values to unpack"),
      Raise("ValueError: too many values to unpack") }

(***************************************************************************)
(* C21, as claimed: an expression of a date-time and a duration that has   *)
(* an unrecognised unit letter, or is otherwise outside the duration       *)
(* grammar, does not expand: it fails with a duration-parse error.         *)
(***************************************************************************)
C21_MalformedDurationFails ==
    (/\ AskedDatetimes
     /\ Kinds(args.elements) \in {<<"datetime", "duration">>,
                                  <<"duration", "datetime">>}
     /\ ~IsOdd(TheElement(args.elements, "datetime"))
     /\ IsOdd(TheElement(args.elements, "duration")))
    => /\ ret.out \in DurationParseErrors
       /\ expander._datetimes = None

(***************************************************************************)
(* C22, as claimed: an expression whose element 0 or 1 is a date-time      *)
(* candidate that neither format accepts does not expand: it fails with    *)
(* the parse error, the ValueError of strptime.                            *)
(***************************************************************************)
C22_UnparseableDatetimeFails ==
    (/\ AskedDatetimes
     /\ \E i \in 1..Len(args.elements) :
           i <= 2 /\ args.elements[i].kind = "datetime"
                  /\ IsOdd(args.elements[i]))
    => /\ ret.out = Raise("ValueError")
       /\ expander._datetimes = None

(***************************************************************************)
(* DataHandler._build_coords and the property coords, applied to bounded   *)
(* axis descriptions.  The handler's _coords is kept beside the response,  *)
(* in data_json._coords: None until the coordinates are built.             *)
(***************************************************************************)
MaxNum == 5          \* the largest "num" of a start/stop/num description
MaxCoordAxes == 2    \* the most axes of a domain

CoordEnds == {0, 100}
StartDescs ==
    { StartDesc(start, stop, num) :
         start \in CoordEnds, stop \in CoordEnds, num \in 0..MaxNum }
ValuesDescs ==
    { ValuesDesc(points) :
         points \in { <<>>, <<Int_(5), Int_(10)>>, <<Int_(10), Int_(5)>>,
                      <<Int_(5), Int_(5)>> } }
\* Descriptions with neither "start" nor "values".
OtherDescs ==
    { <<>>, << <<"stop", 1>>, <<"num", 2>> >>, << <<"bounds", 0>> >> }
CoordDescs == StartDescs \cup ValuesDescs \cup OtherDescs

CoordAxisNames == <<AxZ, AxT, AxE>>
CoordAxes ==
    UNION { { [i \in 1..n |-> <<CoordAxisNames[i], descs[i]>>] :
                 descs \in [1..n -> CoordDescs] } : n \in 1..MaxCoordAxes }

CoordsInit ==
    /\ args \in CoordAxes
    /\ NewHandler([axes |-> args, _coords |-> None])
    /\ keyLog = <<>>
    /\ ret = NoCall
    /\ expander = None
    /\ interface = None

\* self._build_coords(): self.coords is assigned when every axis was built.
BuildCoordsCall ==
    /\ \E r \in {_build_coords(data_json)} :
          /\ data_json' = IF r.t = "raise" THEN data_json
                          ELSE [data_json EXCEPT !._coords = r]
          /\ ret' = [op |-> "_build_coords", arg |-> <<>>,
                     out |-> IF r.t = "raise" THEN r ELSE Ok(None),
                     fetched |-> <<>>]
    /\ UNCHANGED <<cache, errors, _selection_axes, _all_query_keys, _all_data,
                   colours, args, keyLog, expander, interface>>

\* The property coords: built on first use.
CoordsGet ==
    /\ \E r \in {IF data_json._coords.t # "none" THEN data_json._coords
                 ELSE _build_coords(data_json)} :
          /\ data_json' = IF r.t = "raise" THEN data_json
                          ELSE [data_json EXCEPT !._coords = r]
          /\ ret' = [op |-> "coords", arg |-> <<>>,
                     out |-> IF r.t = "raise" THEN r ELSE Ok(Dict_(r.v)),
                     fetched |-> <<>>]
    /\ UNCHANGED <<cache, errors, _selection_axes, _all_query_keys, _all_data,
                   colours, args, keyLog, expander, interface>>

CoordsNext == BuildCoordsCall \/ CoordsGet

SpecCoords == CoordsInit /\ [][CoordsNext]_vars

\* The coordinates were built: the points of the i-th axis.
Built == data_json._coords.t = "ok"
BuiltPoints(i) == DictGet(data_json._coords.v, args[i][1]).v
IsStartDesc(desc) == "start" \in KeySet(desc)
IsValuesDesc(desc) == ~IsStartDesc(desc) /\ "values" \in KeySet(desc)

\* Fractions a and b, as <<numerator, denominator>>: a - b = c - d.
SameStep(a, b, c, d) ==
    (a[1] * b[2] - b[1] * a[2]) * (c[2] * d[2])
        = (c[1] * d[2] - d[1] * c[2]) * (a[2] * b[2])

\* num points from start to stop, both included, evenly spaced.
EvenlySpaced(points, desc) ==
    /\ Len(points) = DictGet(desc, "num")
    /\ points[1] = Float_(DictGet(desc, "start"), 1)
    /\ points[Len(points)] = Float_(DictGet(desc, "stop"), 1)
    /\ \A i \in 1..(Len(points) - 2) :
          SameStep(points[i + 1].v, points[i].v,
                   points[i + 2].v, points[i + 1].v)

(***************************************************************************)
(* C23, as claimed: for an axis described by start/stop/num the built      *)
(* sequence has num points, the first start and the last stop, with the    *)
(* same step between every two consecutive points.                         *)
(***************************************************************************)
C23_Linspace ==
    Built => \A i \in 1..Len(args) :
                IsStartDesc(args[i][2])
                    => IF DictGet(args[i][2], "num") = 0
                       THEN BuiltPoints(i) = <<>>
                       ELSE EvenlySpaced(BuiltPoints(i), args[i][2])

(***************************************************************************)
(* C23, amended: with num >= 2 the built sequence has num points, the      *)
(* first start and the last stop, evenly spaced; with num = 1 it is the    *)
(* one point start, whatever stop is; with num = 0 it is empty.            *)
(***************************************************************************)
C23_LinspaceFromTwo ==
    Built => \A i \in 1..Len(args) :
                IsStartDesc(args[i][2])
                    => IF DictGet(args[i][2], "num") >= 2
                       THEN EvenlySpaced(BuiltPoints(i), args[i][2])
                       ELSE IF DictGet(args[i][2], "num") = 1
                       THEN BuiltPoints(i)
                               = <<Float_(DictGet(args[i][2], "start"), 1)>>
                       ELSE BuiltPoints(i) = <<>>

C23_Witness ==
    /\ Built
    /\ args[1][2] = StartDesc(0, 100, 5)
    /\ BuiltPoints(1) = << Float_(0, 1), Float_(25, 1), Float_(50, 1),
                           Float_(75, 1), Float_(100, 1) >>

(***************************************************************************)
(* C24: an axis described by a "values" list gets that list in unchanged   *)
(* order; when an axis has neither "start" nor "values" the building fails *)
(* with a KeyError naming that description's keys, and the handler stores  *)
(* no coordinates.                                                         *)
(***************************************************************************)
IsOtherDesc(desc) == ~IsStartDesc(desc) /\ "values" \notin KeySet(desc)
FirstOther ==
    CHOOSE i \in 1..Len(args) :
        IsOtherDesc(args[i][2]) /\ \A j \in 1..(i - 1) : ~IsOtherDesc(args[j][2])

C24_ValuesOrKeyError ==
    ret.op \in {"_build_coords", "coords"}
    => IF \E i \in 1..Len(args) : IsOtherDesc(args[i][2])
       THEN /\ ret.out = Raise([error |-> "KeyError",
                                bad_keys |-> DictKeys(args[FirstOther][2])])
            /\ data_json._coords = None
       ELSE /\ Built
            /\ \A i \in 1..Len(args) :
                  IsValuesDesc(args[i][2])
                      => DictGet(data_json._coords.v, args[i][1])
                            = List_(DictGet(args[i][2], "values"))

C24_Witness ==
    /\ ret.op = "_build_coords"
    /\ Len(args) = 2
    /\ args[1][2] = ValuesDesc(<<Int_(10), Int_(5)>>)
    /\ args[2][2] = << <<"stop", 1>>, <<"num", 2>> >>
    /\ ret.out.t = "raise"
    /\ data_json._coords = None

(***************************************************************************)
(* Errors of a lookup, and lookup by key against lookup by native values,  *)
(* in the sessions of Spec.                                                *)
(***************************************************************************)
\* The coords_dict arguments whose key is the key of the call r.
LookupDicts(r) ==
    {d \in SessionDicts(data_json) :
        \E p \in SeqToSet(param_names(data_json)) :
            Str_(make_key(p, d)) = r.arg.key}

\* d names, for every axis, one of the axis's points.
AllPresent(d) ==
    \A i \in 1..Len(d) : d[i][2] \in SeqToSet(Points(data_json, d[i][1]))

\* The call r is a lookup of a combination naming a value its axis lacks.
NamesAbsent(r) == IsLookup(r) /\ \E d \in LookupDicts(r) : ~AllPresent(d)

\* The call r asked the server for a parameter of an unsupported type and
\* was answered.
UnsupportedType(r) ==
    /\ IsLookup(r)
    /\ \E p \in SeqToSet(param_names(data_json)) :
          data_json.ranges[p].type # "TiledNdArray"
    /\ r.fetched # <<>>
    /\ r.fetched[1].answer = "ok"

(***************************************************************************)
(* C25, as claimed: a lookup by key of a combination that cannot be        *)
(* resolved (a value absent from its axis, a parameter of an unsupported   *)
(* type) raises the error to the caller of __getitem__.  The code returns  *)
(* None and leaves the error's text in self.errors.                        *)
(***************************************************************************)
C25_ErrorsRaised ==
    (ret.op = "__getitem__" /\ (NamesAbsent(ret) \/ UnsupportedType(ret)))
        => ret.out.t = "raise"

C29_KeyLookupAsGetItem ==
    [][ \A d \in LookupDicts(ret') :
          \A p \in SeqToSet(param_names(data_json)) :
            \A native \in {get_item(data_json, HandlerState, p, d, TRUE,
                                    "ok", "wrap")} :
              ( /\ ret'.op = "__getitem__"
                /\ IsLookup(ret')
                /\ Str_(make_key(p, d)) = ret'.arg.key
                /\ AllPresent(d)
                /\ errors = None
                /\ \A i \in 1..Len(ret'.fetched) : ret'.fetched[i].answer = "ok"
                /\ native.out.t = "ok" )
              => ret'.out = native.out
      ]_vars

(***************************************************************************)
(* C30, as claimed: for a domain with no selection axis the enumeration    *)
(* yields one combination per parameter, each with the empty mapping, and  *)
(* from_key decodes the key make_key builds for it to the parameter and    *)
(* the empty mapping.  from_key raises IndexError on that key.             *)
(***************************************************************************)
C30_NoSelectionAxis ==
    (ret.op = "get_combinations" /\ SelectionAxisSet(data_json) = {})
        => /\ ret.out.v = [i \in 1..Len(param_names(data_json)) |->
                              <<param_names(data_json)[i], <<>>>>]
           /\ \A i \in 1..Len(ret.out.v) :
                 from_key(make_key(ret.out.v[i][1], ret.out.v[i][2]))
                     = Ok(<<ret.out.v[i][1], ret.out.v[i][2]>>)

(***************************************************************************)
(* EDRInterface (src/edr_explorer/interface.py): the queries that replace  *)
(* its data handler.  interface is a record:                               *)
(*   collections    the list of the server's collections, or None when the *)
(*                  request of __init__ got no response                    *)
(*   _errors        EDRInterface._errors                                   *)
(*   _data_handler  EDRInterface._data_handler: None or a DataHandler      *)
(*   requests       how many GET requests the queries have sent; the       *)
(*                  server's response to a request carries its number      *)
(***************************************************************************)
MaxRequests == 2     \* the most requests the queries of one interface send

Collection(id, title, types) ==
    [id |-> id, title |-> title, data_queries |-> types]

QueryTypeLists == {<<"locations">>, <<"cube", "locations">>, <<"position">>}

\* The collections an interface is built over.
CollectionLists ==
    { << Collection(<<"c">>, <<"C">>, a), Collection(<<"d">>, <<"D">>, b) >> :
         a \in QueryTypeLists, b \in QueryTypeLists }

\* The keys a caller names a collection by: an index, an id, a title, and
\* keys of no collection.
CollectionKeys ==
    {Int_(0), Int_(1), Int_(5), Str_(<<"c">>), Str_(<<"D">>), Str_(<<"n">>)}

QueryTypes == {"locations", "cube", "items"}

\* DataHandler(data_json): a new handler over the response.
DataHandler(response) ==
    [data_json |-> response, cache |-> <<>>, errors |-> None]

\* self.get_collection(keys)
get_collection(self, keys) ==
    IF self.collections = None THEN Raise("TypeError")
    ELSE IF keys.t = "int"
    THEN IF keys.v < Len(self.collections.v)
         THEN Ok(self.collections.v[keys.v + 1]) ELSE Raise("IndexError")
    ELSE LET found == {i \in 1..Len(self.collections.v) :
                          keys.v \in {self.collections.v[i].id,
                                      self.collections.v[i].title}}
         IN IF found = {} THEN Raise("KeyError")
            ELSE Ok(self.collections.v[CHOOSE i \in found :
                                          \A j \in found : j <= i])

\* self.get_query_types(keys)
get_query_types(self, keys) ==
    CHOOSE r \in { IF coll.t = "raise" THEN coll ELSE Ok(coll.v.data_queries) :
                      coll \in {get_collection(self, keys)} } : TRUE

\* self._get_covjson(query_str): the interface it leaves and the response
\* it returns, or what get_request raises.
_get_covjson(self, uri, outcome) ==
    CHOOSE r \in
        { IF got.t = "raise"
          THEN [self |-> [self EXCEPT !._errors = None, !.requests = @ + 1],
                out |-> got]
          ELSE [self |-> [self EXCEPT
                            !._errors = IF got.v.errors = None THEN None
                                        ELSE IF got.v.status_code # None
                                        THEN Msg(<<got.v.errors.v,
                                                   got.v.status_code.v>>)
                                        ELSE got.v.errors,
                            !.requests = @ + 1],
                out |-> Ok([body |-> got.v.response,
                            request |-> self.requests + 1])] :
            got \in {get_request(uri, outcome)} } : TRUE

\* self._query(coll_id, query_type, param_names, **query_kwargs); loc_id is
\* the value of the keyword loc_id, or None when it is not given.
_query(self, coll_id, query_type, loc_id, outcome) ==
    CHOOSE r \in UNION {
        IF coll.t = "raise" THEN {[self |-> self, out |-> coll]}
        ELSE IF query_type = "locations" /\ loc_id = None
        THEN {[self |-> self, out |-> Raise("KeyError")]}
        ELSE { IF got.out.t = "raise" THEN got
               ELSE [self |-> [got.self EXCEPT
                                  !._data_handler = DataHandler(got.out.v)],
                     out |-> Ok(None)] :
                 got \in {_get_covjson(self,
                            <<coll.v.id,
                              IF query_type = "locations"
                              THEN <<"locations", loc_id>> ELSE <<query_type>> >>,
                            outcome)} } :
        coll \in {get_collection(self, coll_id)} } : TRUE

\* query once the data handler is reset.
QueryFrom(self, coll_id, query_type, loc_id, outcome) ==
    CHOOSE r \in
        { IF types.t = "raise" THEN [self |-> self, out |-> types]
          ELSE IF query_type \in SeqToSet(types.v)
          THEN _query(self, coll_id, query_type, loc_id, outcome)
          ELSE [self |-> [self EXCEPT
                            !._errors = Msg(<<"not supported", query_type>>)],
                out |-> Ok(None)] :
            types \in {get_query_types(self, coll_id)} } : TRUE

\* The mutant of query: the data handler of the last query is left in place.
query_keeping(self, coll_id, query_type, loc_id, outcome) ==
    QueryFrom(self, coll_id, query_type, loc_id, outcome)

\* self.query(coll_id, query_type, **query_kwargs)
query(self, coll_id, query_type, loc_id, outcome) ==
    QueryFrom([self EXCEPT !._data_handler = None],
              coll_id, query_type, loc_id, outcome)

\* query_locations once the data handler is reset.
QueryLocationsFrom(self, coll_id, location, outcome) ==
    CHOOSE r \in UNION {
        IF coll.t = "raise" THEN {[self |-> self, out |-> coll]}
        ELSE IF "locations" \notin SeqToSet(coll.v.data_queries)
        THEN {[self |-> self, out |-> Raise("AssertionError")]}
        ELSE { IF got.out.t = "raise" THEN got
               ELSE [self |-> [got.self EXCEPT
                                  !._data_handler = DataHandler(got.out.v)],
                     out |-> Ok(None)] :
                 got \in {_get_covjson(self,
                            <<coll.v.id, <<"locations", location>> >>,
                            outcome)} } :
        coll \in {get_collection(self, coll_id)} } : TRUE

\* self.query_locations(coll_id, location, param_names)
query_locations(self, coll_id, location, outcome) ==
    QueryLocationsFrom([self EXCEPT !._data_handler = None],
                       coll_id, location, outcome)

InterfaceInit ==
    /\ IdleHandler
    /\ args = None
    /\ keyLog = <<>>
    /\ ret = NoCall
    /\ expander = None
    /\ \E collections \in {List_(c) : c \in CollectionLists} \cup {None} :
          interface = [collections |-> collections, _errors |-> None,
                       _data_handler |-> None, requests |-> 0]

\* interface.query(coll_id, query_type, ...); the call's record keeps the
\* handler that was in place when the call began.
QueryCall ==
    /\ interface.requests < MaxRequests
    /\ \E coll_id \in CollectionKeys, query_type \in QueryTypes,
          loc_id \in {None, Str_(<<"l">>)}, outcome \in Outcomes :
         \E r \in {query(interface, coll_id, query_type, loc_id, outcome)} :
            /\ interface' = r.self
            /\ ret' = [op |-> "query",
                       arg |-> [coll_id |-> coll_id, query_type |-> query_type,
                                had |-> interface._data_handler],
                       out |-> r.out, fetched |-> <<>>]
    /\ UNCHANGED <<handlerVars, args, keyLog, expander>>

\* interface.query_locations(coll_id, location, param_names)
QueryLocationsCall ==
    /\ interface.requests < MaxRequests
    /\ \E coll_id \in CollectionKeys, outcome \in Outcomes :
         \E r \in {query_locations(interface, coll_id, Str_(<<"l">>), outcome)} :
            /\ interface' = r.self
            /\ ret' = [op |-> "query_locations",
                       arg |-> [coll_id |-> coll_id, query_type |-> "locations",
                                had |-> interface._data_handler],
                       out |-> r.out, fetched |-> <<>>]
    /\ UNCHANGED <<handlerVars, args, keyLog, expander>>

InterfaceNext == QueryCall \/ QueryLocationsCall

SpecInterface == InterfaceInit /\ [][InterfaceNext]_vars

\* The query types of the collection the call r named, when there is one.
TypesAsked(r) == get_query_types(interface, r.arg.coll_id)

(***************************************************************************)
(* C27, as claimed: query raises AssertionError when the query type is not *)
(* among those the named collection supports.  The code returns normally   *)
(* and leaves a message in self.errors.                                    *)
(***************************************************************************)
C27_UnsupportedQueryTypeAsserts ==
    (ret.op = "query" /\ TypesAsked(ret).t = "ok"
        /\ ret.arg.query_type \notin SeqToSet(TypesAsked(ret).v))
        => ret.out = Raise("AssertionError")

(***************************************************************************)
(* C28: after a call of query or query_locations, returned or raised, the  *)
(* data handler is None or the handler built from the response to the      *)
(* request this call sent; the handler of an earlier query is not kept.    *)
(***************************************************************************)
C28_HandlerOfThisCall ==
    [][ ret'.op \in {"query", "query_locations"}
          => \/ interface'._data_handler = None
             \/ /\ interface'.requests = interface.requests + 1
                /\ interface'._data_handler.data_json.request
                      = interface'.requests
      ]_vars

\* A query that raised on an interface holding the handler of an earlier
\* query, and one that replaced such a handler by its own.
C28_Witness ==
    /\ ret.op = "query"
    /\ ret.arg.had # None
    /\ ret.out.t = "raise"
    /\ interface._data_handler = None

C28_WitnessReplaced ==
    /\ ret.op = "query_locations"
    /\ ret.arg.had # None
    /\ ret.out.t = "ok"
    /\ interface._data_handler # None
    /\ interface._data_handler # ret.arg.had

====
